---------------------------- MODULE Spec2Model ----------------------------
(***************************************************************************)
(* Model of the documentation testing tool                                 *)
(*   src/skills/documentation-generator-pro/scripts/test_docs.py           *)
(* (DocumentationTester, LinkChecker, main).                               *)
(*                                                                         *)
(* Text is modelled at character level: a string is a sequence of          *)
(* one-character strings, so the regular expressions, str.count, strip,    *)
(* split and lower of the source are computed as the code computes them.   *)
(* A filesystem path is a sequence of components, each a string.           *)
(***************************************************************************)
EXTENDS Integers, Sequences, FiniteSets, TLC

(***************************************************************************)
(* Strings                                                                 *)
(***************************************************************************)
NL == "\n"

LowerLetters ==
    {"a","b","c","d","e","f","g","h","i","j","k","l","m",
     "n","o","p","q","r","s","t","u","v","w","x","y","z"}

UpperLetters ==
    {"A","B","C","D","E","F","G","H","I","J","K","L","M",
     "N","O","P","Q","R","S","T","U","V","W","X","Y","Z"}

Digits == {"0","1","2","3","4","5","6","7","8","9"}

\* \w of the re module (ASCII part)
IsWord(c) == c \in LowerLetters \cup UpperLetters \cup Digits \cup {"_"}

\* \s of the re module, and the characters str.strip() removes
IsSpace(c) == c \in {" ", "\t", "\n", "\r"}

UpperToLower ==
    [c \in UpperLetters |->
        CASE c = "A" -> "a" [] c = "B" -> "b" [] c = "C" -> "c" [] c = "D" -> "d"
          [] c = "E" -> "e" [] c = "F" -> "f" [] c = "G" -> "g" [] c = "H" -> "h"
          [] c = "I" -> "i" [] c = "J" -> "j" [] c = "K" -> "k" [] c = "L" -> "l"
          [] c = "M" -> "m" [] c = "N" -> "n" [] c = "O" -> "o" [] c = "P" -> "p"
          [] c = "Q" -> "q" [] c = "R" -> "r" [] c = "S" -> "s" [] c = "T" -> "t"
          [] c = "U" -> "u" [] c = "V" -> "v" [] c = "W" -> "w" [] c = "X" -> "x"
          [] c = "Y" -> "y" [] OTHER -> "z"]

\* str.lower()
Lower(s) == [i \in 1..Len(s) |-> IF s[i] \in UpperLetters THEN UpperToLower[s[i]] ELSE s[i]]

\* s[from:] of Python, 1-based
Drop(s, from) == SubSeq(s, from, Len(s))

\* s.startswith(p) at offset i: s[i:].startswith(p)
StartsAt(s, i, p) ==
    /\ i >= 1
    /\ i + Len(p) - 1 <= Len(s)
    /\ \A k \in 1..Len(p) : s[i + k - 1] = p[k]

StartsWith(s, p) == StartsAt(s, 1, p)

\* p in s
Contains(s, p) == \E i \in 1..(Len(s) + 1) : StartsAt(s, i, p)

\* s.find(p, i): the first offset >= i where p occurs, 0 when there is none
FindFrom(s, p, i) ==
    LET at == {j \in i..(Len(s) - Len(p) + 1) : StartsAt(s, j, p)}
    IN  IF at = {} THEN 0 ELSE CHOOSE j \in at : \A k \in at : j <= k

\* s.count(p): non-overlapping occurrences, scanned left to right
RECURSIVE CountFrom(_, _, _)
CountFrom(s, p, i) ==
    LET j == FindFrom(s, p, i)
    IN  IF j = 0 THEN 0 ELSE 1 + CountFrom(s, p, j + Len(p))

Count(s, p) == CountFrom(s, p, 1)

\* s.split(sep) for a one-character separator
RECURSIVE Split(_, _)
Split(s, sep) ==
    LET j == FindFrom(s, <<sep>>, 1)
    IN  IF j = 0 THEN <<s>>
        ELSE <<SubSeq(s, 1, j - 1)>> \o Split(Drop(s, j + 1), sep)

\* s.lstrip() / s.rstrip() / s.strip()
LStrip(s) ==
    LET kept == {j \in 1..Len(s) : ~IsSpace(s[j])}
    IN  IF kept = {} THEN <<>>
        ELSE SubSeq(s, CHOOSE j \in kept : \A k \in kept : j <= k, Len(s))

RStrip(s) ==
    LET kept == {j \in 1..Len(s) : ~IsSpace(s[j])}
    IN  IF kept = {} THEN <<>>
        ELSE SubSeq(s, 1, CHOOSE j \in kept : \A k \in kept : j >= k)

Strip(s) == RStrip(LStrip(s))

\* s.lstrip(c) for one character c
LStripChar(s, c) ==
    LET kept == {j \in 1..Len(s) : s[j] # c}
    IN  IF kept = {} THEN <<>>
        ELSE SubSeq(s, CHOOSE j \in kept : \A k \in kept : j <= k, Len(s))

\* sep.join(parts)
RECURSIVE Join(_, _)
Join(parts, sep) ==
    IF parts = <<>> THEN <<>>
    ELSE IF Len(parts) = 1 THEN parts[1]
    ELSE parts[1] \o sep \o Join(Tail(parts), sep)

\* concatenation of a sequence of strings
RECURSIVE Flatten(_)
Flatten(parts) == IF parts = <<>> THEN <<>> ELSE parts[1] \o Flatten(Tail(parts))


(***************************************************************************)
(* Regular expressions of the source, computed as re.findall computes them *)
(* (leftmost match, scan resumed after the end of each match)              *)
(***************************************************************************)
\* the end of the maximal run of characters satisfying \w that starts at i
WordRunEnd(s, i) ==
    CHOOSE e \in i..(Len(s) + 1) :
        /\ \A k \in i..(e - 1) : IsWord(s[k])
        /\ e > Len(s) \/ ~IsWord(s[e])

\* the end of the maximal run of \s that starts at i
SpaceRunEnd(s, i) ==
    CHOOSE e \in i..(Len(s) + 1) :
        /\ \A k \in i..(e - 1) : IsSpace(s[k])
        /\ e > Len(s) \/ ~IsSpace(s[e])

\* the offset of the ']' closing a label  \[([^\]]+)\]  opened at i, else 0
LabelEnd(s, i) ==
    IF i > Len(s) \/ s[i] # "[" THEN 0
    ELSE LET j == FindFrom(s, <<"]">>, i + 1)
         IN  IF j = 0 \/ j = i + 1 THEN 0 ELSE j

\* re.findall(r'\[([^\]]+)\]\(([^\)]+)\)', content): <<text, url>> pairs
RECURSIVE FindLinksFrom(_, _)
FindLinksFrom(s, from) ==
    LET i == FindFrom(s, <<"[">>, from)
    IN  IF i = 0 THEN <<>>
    ELSE LET j == LabelEnd(s, i)
             k == IF j = 0 THEN 0 ELSE FindFrom(s, <<")">>, j + 2)
         IN  IF j # 0 /\ StartsAt(s, j + 1, <<"(">>) /\ k # 0 /\ k > j + 2
             THEN <<[text |-> SubSeq(s, i + 1, j - 1), url |-> SubSeq(s, j + 2, k - 1)]>>
                      \o FindLinksFrom(s, k + 1)
             ELSE FindLinksFrom(s, i + 1)

FindLinks(content) == FindLinksFrom(content, 1)

\* re.findall(r'\[([^\]]+)\]\(\s*\)', content): the labels
RECURSIVE FindEmptyLinksFrom(_, _)
FindEmptyLinksFrom(s, from) ==
    LET i == FindFrom(s, <<"[">>, from)
    IN  IF i = 0 THEN <<>>
    ELSE LET j == LabelEnd(s, i)
             k == IF j = 0 THEN 0 ELSE SpaceRunEnd(s, j + 2)
         IN  IF j # 0 /\ StartsAt(s, j + 1, <<"(">>) /\ StartsAt(s, k, <<")">>)
             THEN <<SubSeq(s, i + 1, j - 1)>> \o FindEmptyLinksFrom(s, k + 1)
             ELSE FindEmptyLinksFrom(s, i + 1)

FindEmptyLinks(content) == FindEmptyLinksFrom(content, 1)

\* The backquote character (SANY accepts no backquote inside a string literal)
BQ == "BACKQUOTE"

Fence == <<BQ, BQ, BQ>>

\* re.findall(r'FENCE(\w+)\n(.*?)FENCE', content, re.DOTALL), FENCE the triple
\* backquote: <<lang, code>> pairs
RECURSIVE FindCodeBlocksFrom(_, _)
FindCodeBlocksFrom(s, from) ==
    LET i == FindFrom(s, Fence, from)
    IN  IF i = 0 THEN <<>>
    ELSE LET w == WordRunEnd(s, i + 3)
             e == FindFrom(s, Fence, w + 1)
         IN  IF w > i + 3 /\ StartsAt(s, w, <<NL>>) /\ e # 0
             THEN <<[lang |-> SubSeq(s, i + 3, w - 1), code |-> SubSeq(s, w + 1, e - 1)]>>
                      \o FindCodeBlocksFrom(s, e + 3)
             ELSE FindCodeBlocksFrom(s, i + 1)

FindCodeBlocks(content) == FindCodeBlocksFrom(content, 1)

(***************************************************************************)
(* Paths (pathlib), relative to a current directory that is the            *)
(* filesystem root: a path is its sequence of components                   *)
(***************************************************************************)
Slash == "/"
Hash == "#"
Dot == "."

\* PurePath(s).parts without the anchor: empty and '.' components are dropped
ParseParts(s) ==
    SelectSeq(Split(s, Slash), LAMBDA c : c # <<>> /\ c # <<Dot>>)

\* Path.resolve() of an absolute path without symbolic links: '..' is collapsed
RECURSIVE ResolveFrom(_, _)
ResolveFrom(done, rest) ==
    IF rest = <<>> THEN done
    ELSE IF rest[1] = <<Dot, Dot>>
         THEN ResolveFrom(IF done = <<>> THEN <<>> ELSE SubSeq(done, 1, Len(done) - 1),
                          Tail(rest))
         ELSE ResolveFrom(Append(done, rest[1]), Tail(rest))

Resolve(parts) == ResolveFrom(<<>>, parts)

\* str(path) of an absolute path
PathStr(parts) == <<Slash>> \o Join(parts, <<Slash>>)

\* str(path) of a path relative to the current directory
RelPathStr(parts) == IF parts = <<>> THEN <<Dot>> ELSE Join(parts, <<Slash>>)

\* path.parent
Parent(parts) == SubSeq(parts, 1, Len(parts) - 1)

\* path.name
Name(parts) == IF parts = <<>> THEN <<>> ELSE parts[Len(parts)]

IsPrefix(p, q) == Len(p) <= Len(q) /\ SubSeq(q, 1, Len(p)) = p

EndsWith(s, p) == Len(p) <= Len(s) /\ SubSeq(s, Len(s) - Len(p) + 1, Len(s)) = p

(***************************************************************************)
(* DocumentationTester                                                     *)
(***************************************************************************)
\* __init__
NewTester ==
    [errors |-> <<>>,
     warnings |-> <<>>,
     stats |-> [files_checked |-> 0, links_checked |-> 0, code_blocks_tested |-> 0,
                errors |-> 0, warnings |-> 0]]

\* an error counter that starts again with every document
AddErrorCountedPerFile(t, filepath, message) ==
    LET errors == Append(t.errors, [file |-> filepath, message |-> message])
    IN  [t EXCEPT !.errors = errors,
                  !.stats.errors = Len(SelectSeq(errors, LAMBDA e : e.file = filepath))]

\* _add_error
AddError(t, filepath, message) ==
    [t EXCEPT !.errors = Append(@, [file |-> filepath, message |-> message]),
              !.stats.errors = @ + 1]

\* a warning that is recorded without being counted
AddWarningUncounted(t, filepath, message) ==
    [t EXCEPT !.warnings = Append(@, [file |-> filepath, message |-> message])]

\* _add_warning
AddWarning(t, filepath, message) ==
    [t EXCEPT !.warnings = Append(@, [file |-> filepath, message |-> message]),
              !.stats.warnings = @ + 1]

\* the H1 lines counted by _check_markdown_syntax
IsH1Line(line) ==
    StartsWith(Strip(line), <<"#", " ">>) /\ ~StartsWith(Strip(line), <<"#", "#">>)

RECURSIVE CountH1(_)
CountH1(lines) ==
    IF lines = <<>> THEN 0
    ELSE (IF IsH1Line(lines[1]) THEN 1 ELSE 0) + CountH1(Tail(lines))

\* one warning for every level-1 heading after the first
CheckMultipleH1PerHeading(t, filepath, lines) ==
    IF CountH1(lines) > 2
    THEN AddWarning(AddWarning(t, filepath, [kind |-> "multiple_h1"]),
                    filepath, [kind |-> "multiple_h1"])
    ELSE IF CountH1(lines) > 1
    THEN AddWarning(t, filepath, [kind |-> "multiple_h1"])
    ELSE t

\* "Check for multiple H1 headers"
CheckMultipleH1(t, filepath, lines) ==
    IF CountH1(lines) > 1
    THEN AddWarning(t, filepath, [kind |-> "multiple_h1"])
    ELSE t

\* "Check for empty links"
CheckEmptyLinks(t, filepath, content) ==
    LET empty_links == FindEmptyLinks(content)
    IN  IF empty_links # <<>>
        THEN AddError(t, filepath, [kind |-> "empty_links", labels |-> empty_links])
        ELSE t

\* a parity taken over the lines that begin with a fence
CheckFenceParityByLines(t, filepath, content) ==
    LET lines == Split(content, NL)
        fence_lines == {i \in 1..Len(lines) : StartsWith(lines[i], Fence)}
    IN  IF Cardinality(fence_lines) % 2 # 0
        THEN AddError(t, filepath, [kind |-> "unclosed_code_block"])
        ELSE t

\* "Check for unclosed code blocks"
CheckFenceParity(t, filepath, content) ==
    LET code_block_count == Count(content, Fence)
    IN  IF code_block_count % 2 # 0
        THEN AddError(t, filepath, [kind |-> "unclosed_code_block"])
        ELSE t

\* len(line) - len(line.lstrip('#'))
HeadingLevel(line) == Len(line) - Len(LStripChar(line, "#"))

\* "Check for heading hierarchy": the loop over enumerate(lines, 1)
RECURSIVE HeadingLoop(_, _, _, _, _)
HeadingLoop(t, filepath, lines, i, prev_level) ==
    IF i > Len(lines) THEN t
    ELSE IF StartsWith(Strip(lines[i]), <<"#">>)
         THEN LET level == HeadingLevel(lines[i])
                  t1 == IF level > prev_level + 1 /\ prev_level > 0
                        THEN AddWarning(t, filepath,
                                 [kind |-> "skipped_heading", line |-> i,
                                  from |-> prev_level, to |-> level])
                        ELSE t
              IN  HeadingLoop(t1, filepath, lines, i + 1, level)
         ELSE HeadingLoop(t, filepath, lines, i + 1, prev_level)

\* _check_markdown_syntax
CheckMarkdownSyntax(t, filepath, content) ==
    LET lines == Split(content, NL)
        t1 == CheckMultipleH1(t, filepath, lines)
        t2 == CheckEmptyLinks(t1, filepath, content)
        t3 == CheckFenceParity(t2, filepath, content)
    IN  HeadingLoop(t3, filepath, lines, 1, 0)

(***************************************************************************)
(* _check_links                                                            *)
(***************************************************************************)
\* Path.exists(): a file of the tree, or a directory on the way to one; the
\* documentation root itself exists whenever the checks run
IsDir(fs, docs_path, p) ==
    \/ IsPrefix(p, docs_path)
    \/ \E f \in fs : IsPrefix(p, f) /\ p # f

\* the lookup of the operating system: a '..' left in the path (by the anchor
\* removal) steps out of a directory that has to exist
RECURSIVE Lookup(_, _, _, _)
Lookup(fs, docs_path, at, rest) ==
    IF rest = <<>> THEN IsDir(fs, docs_path, at) \/ at \in fs
    ELSE /\ IsDir(fs, docs_path, at)
         /\ Lookup(fs, docs_path,
                   IF rest[1] # <<Dot, Dot>> THEN Append(at, rest[1])
                   ELSE IF at = <<>> THEN <<>> ELSE Parent(at),
                   Tail(rest))

Exists(fs, docs_path, p) == Lookup(fs, docs_path, <<>>, p)

\* the longest file name the operating system looks up (NAME_MAX)
NameMax == 255

\* link_path.exists() raises instead of answering: os.stat fails with "File name
\* too long" when the walk reaches, in a directory that exists, a name longer
\* than NameMax; pathlib passes that error on
RECURSIVE LookupRaises(_, _, _, _)
LookupRaises(fs, docs_path, at, rest) ==
    IF rest = <<>> THEN FALSE
    ELSE /\ IsDir(fs, docs_path, at)
         /\ \/ Len(rest[1]) > NameMax
            \/ LookupRaises(fs, docs_path,
                            IF rest[1] # <<Dot, Dot>> THEN Append(at, rest[1])
                            ELSE IF at = <<>> THEN <<>> ELSE Parent(at),
                            Tail(rest))

\* a resolution that forgets lstrip('/'): joining an absolute target drops docs_path
ResolveLinkNoStrip(docs_path, filepath, link_url) ==
    IF ~StartsWith(link_url, <<Slash>>)
    THEN Resolve(Parent(filepath) \o ParseParts(link_url))
    ELSE Resolve(ParseParts(link_url))

\* "Check relative file links": the path the link is resolved to
ResolveLink(docs_path, filepath, link_url) ==
    IF ~StartsWith(link_url, <<Slash>>)
    THEN Resolve(Parent(filepath) \o ParseParts(link_url))
    ELSE Resolve(docs_path \o ParseParts(LStripChar(link_url, Slash)))

\* "Remove anchor if present": Path(str(link_path).split('#')[0])
RemoveAnchor(link_path) ==
    IF Contains(PathStr(link_path), <<Hash>>)
    THEN ParseParts(Split(PathStr(link_path), Hash)[1])
    ELSE link_path

\* the prefixes that make _check_links skip a link
IsSkippedLink(link_url) ==
    \/ StartsWith(link_url, <<Hash>>)
    \/ StartsWith(link_url, <<"h", "t", "t", "p", ":", "/", "/">>)
    \/ StartsWith(link_url, <<"h", "t", "t", "p", "s", ":", "/", "/">>)
    \/ StartsWith(link_url, <<"m", "a", "i", "l", "t", "o", ":">>)

\* a loop body that counts a link only when it goes on to check it
CheckOneLinkCountingLocal(t, fs, docs_path, filepath, link) ==
    LET t1 == [t EXCEPT !.stats.links_checked = @ + 1]
        link_path == RemoveAnchor(ResolveLink(docs_path, filepath, link.url))
    IN  IF IsSkippedLink(link.url) THEN t
        ELSE IF ~Exists(fs, docs_path, link_path)
             THEN AddError(t1, filepath,
                      [kind |-> "broken_link", url |-> link.url, path |-> link_path])
             ELSE t1

\* the body of the loop of _check_links for one link
CheckOneLink(t, fs, docs_path, filepath, link) ==
    LET t1 == [t EXCEPT !.stats.links_checked = @ + 1]
        link_path == RemoveAnchor(ResolveLink(docs_path, filepath, link.url))
    IN  IF IsSkippedLink(link.url) THEN t1
        ELSE IF ~Exists(fs, docs_path, link_path)
             THEN AddError(t1, filepath,
                      [kind |-> "broken_link", url |-> link.url, path |-> link_path])
             ELSE t1

\* the body of the loop raises at this link: nothing in _check_links or in its
\* callers catches the error
LinkRaises(fs, docs_path, filepath, link) ==
    /\ ~IsSkippedLink(link.url)
    /\ LookupRaises(fs, docs_path, <<>>,
                    RemoveAnchor(ResolveLink(docs_path, filepath, link.url)))

\* the loop over links; it ends at a link that raises, which has been counted
RECURSIVE CheckLinksLoop(_, _, _, _, _)
CheckLinksLoop(t, fs, docs_path, filepath, links) ==
    IF links = <<>> THEN t
    ELSE IF LinkRaises(fs, docs_path, filepath, links[1])
    THEN [t EXCEPT !.stats.links_checked = @ + 1]
    ELSE CheckLinksLoop(CheckOneLink(t, fs, docs_path, filepath, links[1]),
                        fs, docs_path, filepath, Tail(links))

\* _check_links does not return: one of the links raises
LinksRaise(fs, docs_path, filepath, content) ==
    LET links == FindLinks(content)
    IN  \E i \in 1..Len(links) : LinkRaises(fs, docs_path, filepath, links[i])

\* a link check that, asked to fix, mends the document instead of reporting
CheckLinksFixing(t, fs, docs_path, filepath, content, fix) ==
    IF fix THEN t
    ELSE CheckLinksLoop(t, fs, docs_path, filepath, FindLinks(content))

\* _check_links (the fix argument is not read by the body)
CheckLinks(t, fs, docs_path, filepath, content, fix) ==
    CheckLinksLoop(t, fs, docs_path, filepath, FindLinks(content))

(***************************************************************************)
(* _check_common_issues                                                    *)
(***************************************************************************)
TodoMarkers == {<<"T", "O", "D", "O">>, <<"F", "I", "X", "M", "E">>, <<"X", "X", "X">>}

\* len(re.findall(r'TODO|FIXME|XXX', content)); at most one alternative matches
\* at an offset, the alternatives starting with different letters
RECURSIVE CountTodosFrom(_, _)
CountTodosFrom(s, from) ==
    LET at == {j \in from..Len(s) : \E m \in TodoMarkers : StartsAt(s, j, m)}
        i == CHOOSE j \in at : \A k \in at : j <= k
    IN  IF at = {} THEN 0
        ELSE 1 + CountTodosFrom(s, i + Len(CHOOSE m \in TodoMarkers : StartsAt(s, i, m)))

CheckTodos(t, filepath, content) ==
    LET todos == CountTodosFrom(content, 1)
    IN  IF todos > 0
        THEN AddWarning(t, filepath, [kind |-> "todo_markers", count |-> todos])
        ELSE t

LongLine == 120

\* "Check for very long lines (except in code blocks)"
RECURSIVE LongLineLoop(_, _, _, _, _)
LongLineLoop(t, filepath, lines, i, in_code_block) ==
    IF i > Len(lines) THEN t
    ELSE IF StartsWith(Strip(lines[i]), Fence)
         THEN LongLineLoop(t, filepath, lines, i + 1, ~in_code_block)
         ELSE LongLineLoop(
                  IF ~in_code_block /\ Len(lines[i]) > LongLine
                  THEN AddWarning(t, filepath,
                           [kind |-> "long_line", line |-> i, chars |-> Len(lines[i])])
                  ELSE t,
                  filepath, lines, i + 1, in_code_block)

\* re.search(r'\bW\s+W\b', content, re.IGNORECASE) for a word W
DupWordAt(s, i, w) ==
    LET e == SpaceRunEnd(s, i + Len(w))
    IN  /\ i = 1 \/ ~IsWord(s[i - 1])
        /\ i + Len(w) - 1 <= Len(s)
        /\ Lower(SubSeq(s, i, i + Len(w) - 1)) = w
        /\ e > i + Len(w)
        /\ e + Len(w) - 1 <= Len(s)
        /\ Lower(SubSeq(s, e, e + Len(w) - 1)) = w
        /\ e + Len(w) > Len(s) \/ ~IsWord(s[e + Len(w)])

HasDupWord(s, w) == \E i \in 1..Len(s) : DupWordAt(s, i, w)

\* common_typos, in dictionary order
CommonTypos == <<<<"t", "h", "e">>, <<"o", "f">>, <<"i", "s">>>>

RECURSIVE TypoLoop(_, _, _, _)
TypoLoop(t, filepath, content, k) ==
    IF k > Len(CommonTypos) THEN t
    ELSE TypoLoop(
             IF HasDupWord(content, CommonTypos[k])
             THEN AddWarning(t, filepath, [kind |-> "typo", word |-> CommonTypos[k]])
             ELSE t,
             filepath, content, k + 1)

\* _check_common_issues
CheckCommonIssues(t, filepath, content) ==
    LET t1 == CheckTodos(t, filepath, content)
        t2 == LongLineLoop(t1, filepath, Split(content, NL), 1, FALSE)
    IN  TypoLoop(t2, filepath, content, 1)

(***************************************************************************)
(* _test_code_examples and the per-language checks                         *)
(***************************************************************************)
\* "Skip non-executable code blocks"
NonExecutable == {<<"t", "e", "x", "t">>, <<"m", "a", "r", "k", "d", "o", "w", "n">>, <<"j", "s", "o", "n">>, <<"y", "a", "m", "l">>, <<"y", "m", "l">>, <<"o", "u", "t", "p", "u", "t">>}

LangPython == <<"p", "y", "t", "h", "o", "n">>
LangJavascript == {<<"j", "a", "v", "a", "s", "c", "r", "i", "p", "t">>, <<"j", "s">>}
LangBash == <<"b", "a", "s", "h">>

\* a dispatch that compares the skip list with the tag as written and takes
\* every tag that holds "js" for javascript
CheckerBySubstring(lang) ==
    IF lang \in NonExecutable THEN "none"
    ELSE IF Lower(lang) = LangPython THEN "python"
    ELSE IF Contains(Lower(lang), <<"j", "s">>) THEN "javascript"
    ELSE IF Lower(lang) = LangBash THEN "bash"
    ELSE "other"

\* a dispatch that passes over the blocks of a language without a check
CheckerKnownLanguagesOnly(lang) ==
    IF Lower(lang) \in NonExecutable THEN "none"
    ELSE IF Lower(lang) = LangPython THEN "python"
    ELSE IF Lower(lang) \in LangJavascript THEN "javascript"
    ELSE IF Lower(lang) = LangBash THEN "bash"
    ELSE "none"

\* the check the loop of _test_code_examples chooses for a block tagged lang:
\* "none" is the continue of the skip list, "other" a counted block without check
Checker(lang) ==
    IF Lower(lang) \in NonExecutable THEN "none"
    ELSE IF Lower(lang) = LangPython THEN "python"
    ELSE IF Lower(lang) \in LangJavascript THEN "javascript"
    ELSE IF Lower(lang) = LangBash THEN "bash"
    ELSE "other"

\* a placeholder test that does not know the example hostname
HasPlaceholderWithoutHostname(code) ==
    \/ Contains(code, <<"Y", "O", "U", "R", "_", "A", "P", "I", "_", "K", "E", "Y">>)
    \/ Contains(Lower(code), <<"y", "o", "u", "r", "-">>)

\* "Skip examples with placeholders" of _test_python_code, _test_javascript_code
HasPlaceholder(code) ==
    \/ Contains(code, <<"Y", "O", "U", "R", "_", "A", "P", "I", "_", "K", "E", "Y">>)
    \/ Contains(Lower(code), <<"y", "o", "u", "r", "-">>)
    \/ Contains(code, <<"e", "x", "a", "m", "p", "l", "e", ".", "c", "o", "m">>)

\* dangerous of _test_bash_code
Dangerous == {<<"r", "m", " ", "-", "r", "f">>, <<"d", "d", " ", "i", "f", "=">>, <<"m", "k", "f", "s">>, <<":", "(", ")", "{", ":", "|", ":", "&", "}", ";", ":">>}

\* a test that knows the recursive delete only
IsDangerousRecursiveDeleteOnly(code) == Contains(code, <<"r", "m", " ", "-", "r", "f">>)

IsDangerous(code) == \E cmd \in Dangerous : Contains(code, cmd)

\* the placeholder test of _test_bash_code
HasBashPlaceholder(code) ==
    \/ Contains(code, <<"Y", "O", "U", "R", "_">>)
    \/ Contains(Lower(code), <<"y", "o", "u", "r", "-">>)

\* "Check for unmatched quotes", the loop over the lines of a bash block
RECURSIVE BashLineLoop(_, _, _, _)
BashLineLoop(t, filepath, lines, i) ==
    IF i > Len(lines) THEN t
    ELSE LET line == Strip(lines[i])
         IN  IF line = <<>> \/ StartsWith(line, <<Hash>>)
             THEN BashLineLoop(t, filepath, lines, i + 1)
             ELSE BashLineLoop(
                      IF Count(line, <<"\"">>) % 2 # 0 \/ Count(line, <<"'">>) % 2 # 0
                      THEN AddWarning(t, filepath,
                               [kind |-> "bash_unmatched_quotes", line |-> line])
                      ELSE t,
                      filepath, lines, i + 1)

\* _test_bash_code
TestBashCode(t, filepath, code) ==
    IF IsDangerous(code) THEN t
    ELSE IF HasBashPlaceholder(code) THEN t
    ELSE BashLineLoop(t, filepath, Split(code, NL), 1)

(***************************************************************************)
(* LinkChecker and the discovery of documents                              *)
(***************************************************************************)
\* re.findall(r'\[([^\]]+)\]\((https?://[^\)]+)\)', content): the urls
RECURSIVE FindExternalLinksFrom(_, _)
FindExternalLinksFrom(s, from) ==
    LET i == FindFrom(s, <<"[">>, from)
    IN  IF i = 0 THEN <<>>
    ELSE LET j == LabelEnd(s, i)
             u == IF StartsAt(s, j + 2, <<"h", "t", "t", "p", ":", "/", "/">>) THEN j + 9
                  ELSE IF StartsAt(s, j + 2, <<"h", "t", "t", "p", "s", ":", "/", "/">>) THEN j + 10
                  ELSE 0
             k == IF j = 0 \/ u = 0 THEN 0 ELSE FindFrom(s, <<")">>, u)
         IN  IF j # 0 /\ StartsAt(s, j + 1, <<"(">>) /\ u # 0 /\ k # 0 /\ k > u
             THEN <<SubSeq(s, j + 2, k - 1)>> \o FindExternalLinksFrom(s, k + 1)
             ELSE FindExternalLinksFrom(s, i + 1)

FindExternalLinks(content) == FindExternalLinksFrom(content, 1)

\* a byte that is not valid in the encoding read_text decodes with
BadByte == "BADBYTE"

\* md_file.read_text() returns the text; it raises UnicodeDecodeError otherwise
Decodable(bytes) == \A i \in 1..Len(bytes) : bytes[i] # BadByte

\* the order in which glob yields the files it finds: the directory order of the
\* filesystem, some fixed enumeration of the set
DirectoryOrder(S) ==
    CHOOSE seq \in [1..Cardinality(S) -> S] :
        \A i, j \in 1..Cardinality(S) : i # j => seq[i] # seq[j]

\* a listing of every file below the root, whatever its extension
GlobEveryFile(fs, docs_path) ==
    DirectoryOrder({f \in fs : IsPrefix(docs_path, f) /\ f # docs_path})

\* list(docs_path.glob("**/*.md"))
Glob(fs, docs_path) ==
    DirectoryOrder({f \in fs : /\ IsPrefix(docs_path, f)
                            /\ f # docs_path
                            /\ EndsWith(Name(f), <<".", "m", "d">>)})

\* the filter of the loop of run_all_tests
IsSkippedFile(md_file) ==
    \/ Contains(RelPathStr(md_file), <<"n", "o", "d", "e", "_", "m", "o", "d", "u", "l", "e", "s">>)
    \/ Contains(RelPathStr(md_file), <<".", "g", "i", "t">>)

\* the filter of the loop of check_external_links
IsSkippedExternalFile(md_file) == Contains(RelPathStr(md_file), <<"n", "o", "d", "e", "_", "m", "o", "d", "u", "l", "e", "s">>)

(***************************************************************************)
(* The outcomes of a subprocess.run call and of a requests.head call       *)
(***************************************************************************)
\* subprocess.run returned (returncode, stderr), or raised TimeoutExpired, or
\* raised another exception (the interpreter could not be started)
ProcessOutcomes ==
    {[kind |-> "exit", returncode |-> 0, stderr |-> <<>>],
     [kind |-> "exit", returncode |-> 1, stderr |-> <<"E", "1">>],
     [kind |-> "exit", returncode |-> 2, stderr |-> <<"E", "2">>],
     [kind |-> "timeout"],
     [kind |-> "exception"]}

\* requests.head returned a status code, or raised a RequestException
RequestOutcomes ==
    {[kind |-> "response", status_code |-> 200],
     [kind |-> "response", status_code |-> 399],
     [kind |-> "response", status_code |-> 400],
     [kind |-> "response", status_code |-> 404],
     [kind |-> "request_exception"]}

\* a result whose error message leaves the captured stderr out
PythonResultWithoutStderr(t, filepath, outcome) ==
    IF outcome.kind = "exit"
    THEN IF outcome.returncode # 0
         THEN AddError(t, filepath, [kind |-> "python_syntax_error", stderr |-> <<>>])
         ELSE t
    ELSE IF outcome.kind = "timeout"
    THEN AddWarning(t, filepath, [kind |-> "python_timeout"])
    ELSE AddWarning(t, filepath, [kind |-> "python_could_not_test"])

\* the try statement of _test_python_code, after subprocess.run
PythonResult(t, filepath, outcome) ==
    IF outcome.kind = "exit"
    THEN IF outcome.returncode # 0
         THEN AddError(t, filepath,
                  [kind |-> "python_syntax_error", stderr |-> outcome.stderr])
         ELSE t
    ELSE IF outcome.kind = "timeout"
    THEN AddWarning(t, filepath, [kind |-> "python_timeout"])
    ELSE AddWarning(t, filepath, [kind |-> "python_could_not_test"])

\* a result that drops a check that timed out
JavascriptResultTimeoutSilent(t, filepath, outcome) ==
    IF outcome.kind = "exit"
    THEN IF outcome.returncode # 0
         THEN AddError(t, filepath,
                  [kind |-> "javascript_syntax_error", stderr |-> outcome.stderr])
         ELSE t
    ELSE IF outcome.kind = "timeout"
    THEN t
    ELSE AddWarning(t, filepath, [kind |-> "javascript_could_not_test"])

\* the try statement of _test_javascript_code, after subprocess.run
JavascriptResult(t, filepath, outcome) ==
    IF outcome.kind = "exit"
    THEN IF outcome.returncode # 0
         THEN AddError(t, filepath,
                  [kind |-> "javascript_syntax_error", stderr |-> outcome.stderr])
         ELSE t
    ELSE IF outcome.kind = "timeout"
    THEN AddWarning(t, filepath, [kind |-> "javascript_timeout"])
    ELSE AddWarning(t, filepath, [kind |-> "javascript_could_not_test"])

\* a try statement without the finally clause
UnlinkNothing(files, temp_file) == files

\* the finally clause: Path(temp_file).unlink(missing_ok=True)
Unlink(files, temp_file) == files \ {temp_file}

\* a loop body that takes status 400 for a success
ExternalResultAbove400(broken_links, md_file, url, outcome) ==
    IF outcome.kind = "response"
    THEN IF outcome.status_code > 400
         THEN Append(broken_links,
                  [file |-> md_file, url |-> url, reason |-> [http |-> outcome.status_code]])
         ELSE broken_links
    ELSE Append(broken_links,
             [file |-> md_file, url |-> url, reason |-> [exception |-> "RequestException"]])

\* the body of the loop over the links of check_external_links
ExternalResult(broken_links, md_file, url, outcome) ==
    IF outcome.kind = "response"
    THEN IF outcome.status_code >= 400
         THEN Append(broken_links,
                  [file |-> md_file, url |-> url, reason |-> [http |-> outcome.status_code]])
         ELSE broken_links
    ELSE Append(broken_links,
             [file |-> md_file, url |-> url, reason |-> [exception |-> "RequestException"]])

\* a main for which a sweep without a result is a failure
AfterSweepNeedsResult(ok, broken_links) == FALSE

\* "if broken: ... success = False"
AfterSweep(ok, broken_links) == IF broken_links # <<>> THEN FALSE ELSE ok

\* a verdict that warnings spoil too
VerdictCountsWarnings(t) == t.stats.errors = 0 /\ t.stats.warnings = 0

\* success as run_all_tests returns it after the loop
Verdict(t) == t.stats.errors = 0

\* an exit status that ignores success
ExitCodeAlwaysZero(ok) == 0

\* sys.exit(0 if success else 1)
ExitCode(ok) == IF ok THEN 0 ELSE 1

(***************************************************************************)
(* State                                                                   *)
(***************************************************************************)
VARIABLES
    tree,          \* the files below the current directory: path -> text
    root_exists,   \* docs_path.exists()
    args,          \* the parsed command line
    pc,            \* the position of the program
    tester,        \* the DocumentationTester: errors, warnings, stats
    md_files,      \* run_all_tests: the files found by glob
    idx,           \* run_all_tests: the position of the loop over md_files
    code_blocks,   \* _test_code_examples: the blocks still to visit
    temp_files,    \* the temporary files that exist
    temp_seq,      \* the number of temporary files created
    spawned,       \* the subprocesses started so far
    printed,       \* whether _print_results has run
    success,       \* main: success
    ext_files,     \* check_external_links: the files still to visit
    ext_links,     \* check_external_links: the urls of the current file still to visit
    broken,        \* check_external_links: broken_links
    imported,      \* check_external_links: how "import requests" ended, "" before it
    requested,     \* the requests.head calls made so far and their outcomes
    warned,        \* whether the hint to install requests was printed
    exit_status,   \* the status given to sys.exit, -1 while the process runs
    pool,          \* the workers of a pool that shares the tester; main starts none
    gen,           \* generate_docs.py: a content, what was preserved of it, the result
    mgr            \* version_docs.py: the versions metadata and the directories

vars == <<tree, root_exists, args, pc, tester, md_files, idx, code_blocks, temp_files,
          temp_seq, spawned, printed, success, ext_files, ext_links, broken, imported, requested,
          warned, exit_status, pool, gen, mgr>>

runVars == <<md_files, idx, code_blocks>>
procVars == <<temp_files, temp_seq, spawned>>
extVars == <<ext_files, ext_links, broken, imported, requested, warned>>
\* the state of the other scripts, which test_docs.py never touches
toolVars == <<gen, mgr>>
inputVars == <<tree, root_exists, toolVars>>

DocsPath == <<<<"d", "o", "c", "s">>>>

CurrentFile == md_files[idx]

(***************************************************************************)
(* main, up to the call of run_all_tests                                   *)
(***************************************************************************)
\* "Validate path", the construction of the tester, the handling of --all
Main ==
    /\ pc = "main"
    /\ IF ~root_exists
       THEN /\ pc' = "exited"
            /\ exit_status' = 1
            /\ UNCHANGED <<args, tester>>
       ELSE /\ pc' = "run"
            /\ tester' = NewTester
            /\ args' = IF args.all
                       THEN [args EXCEPT !.execute_examples = TRUE, !.check_links = TRUE]
                       ELSE args
            /\ UNCHANGED exit_status
    /\ UNCHANGED <<inputVars, pool, runVars, procVars, printed, success, extVars>>

(***************************************************************************)
(* run_all_tests                                                           *)
(***************************************************************************)
\* "Find all markdown files" and the early return
RunStart ==
    /\ pc = "run"
    /\ LET found == Glob(DOMAIN tree, DocsPath)
       IN  IF found = <<>>
           THEN /\ success' = FALSE
                /\ pc' = "after_run"
                /\ UNCHANGED <<md_files, idx>>
           ELSE /\ md_files' = found
                /\ idx' = 1
                /\ pc' = "loop"
                /\ UNCHANGED success
    /\ UNCHANGED <<inputVars, pool, args, tester, code_blocks, procVars, printed, extVars,
                   exit_status>>

\* the head of the loop over md_files: the end of the loop, a skipped file, or
\* the next file counted and read; an exception of read_text is caught nowhere:
\* the interpreter prints the traceback and the process ends with status 1
LoopNext ==
    /\ pc = "loop"
    /\ IF idx > Len(md_files)
       THEN /\ pc' = "print"
            /\ UNCHANGED <<idx, tester>>
       ELSE IF IsSkippedFile(CurrentFile)
       THEN /\ idx' = idx + 1
            /\ UNCHANGED <<pc, tester>>
       ELSE /\ tester' = [tester EXCEPT !.stats.files_checked = @ + 1]
            /\ pc' = IF Decodable(tree[CurrentFile]) THEN "syntax" ELSE "crashed"
            /\ UNCHANGED idx
    /\ exit_status' = IF pc' = "crashed" THEN 1 ELSE exit_status
    /\ UNCHANGED <<inputVars, pool, args, md_files, code_blocks, procVars, printed, success,
                   extVars>>

DoCheckMarkdownSyntax ==
    /\ pc = "syntax"
    /\ tester' = CheckMarkdownSyntax(tester, CurrentFile, tree[CurrentFile])
    /\ pc' = "links"
    /\ UNCHANGED <<inputVars, pool, args, runVars, procVars, printed, success, extVars,
                   exit_status>>

\* _check_links; an exception of exists() ends the process like one of read_text
DoCheckLinks ==
    /\ pc = "links"
    /\ tester' = CheckLinks(tester, DOMAIN tree, DocsPath, CurrentFile,
                            tree[CurrentFile], args.fix)
    /\ pc' = IF LinksRaise(DOMAIN tree, DocsPath, CurrentFile, tree[CurrentFile])
             THEN "crashed"
             ELSE "common"
    /\ exit_status' = IF pc' = "crashed" THEN 1 ELSE exit_status
    /\ UNCHANGED <<inputVars, pool, args, runVars, procVars, printed, success, extVars>>

\* _check_common_issues, then "if execute_examples": the extraction of the code
\* blocks by _test_code_examples, or the next turn of the loop
DoCheckCommonIssues ==
    /\ pc = "common"
    /\ tester' = CheckCommonIssues(tester, CurrentFile, tree[CurrentFile])
    /\ IF args.execute_examples
       THEN /\ code_blocks' = FindCodeBlocks(tree[CurrentFile])
            /\ pc' = "code"
            /\ UNCHANGED idx
       ELSE /\ idx' = idx + 1
            /\ pc' = "loop"
            /\ UNCHANGED code_blocks
    /\ UNCHANGED <<inputVars, pool, args, md_files, procVars, printed, success, extVars,
                   exit_status>>

(***************************************************************************)
(* _test_code_examples: one turn of the loop over code_blocks              *)
(***************************************************************************)
\* the block has been handled: on to the next one
NextBlock == code_blocks' = Tail(code_blocks)

\* tempfile.NamedTemporaryFile(..., delete=False): a fresh file that holds code
CreateTemp(suffix) ==
    /\ temp_seq' = temp_seq + 1
    /\ temp_files' = temp_files \cup {[name |-> temp_seq + 1, suffix |-> suffix]}

\* the file created last: temp_file
TempFile(suffix) == [name |-> temp_seq, suffix |-> suffix]

\* the subprocesses started so far: the command, the document and the block it
\* was started for, and what became of it
Spawn(cmd, block, outcome) ==
    Append(spawned, [cmd |-> cmd, file |-> CurrentFile, lang |-> block.lang,
                     code |-> block.code, outcome |-> outcome])

\* the loop is over: back to the loop of run_all_tests
CodeDone ==
    /\ pc = "code"
    /\ code_blocks = <<>>
    /\ idx' = idx + 1
    /\ pc' = "loop"
    /\ UNCHANGED <<inputVars, pool, args, tester, md_files, code_blocks, procVars, printed,
                   success, extVars, exit_status>>

\* "Skip non-executable code blocks"
SkipNonExecutable ==
    /\ pc = "code"
    /\ code_blocks # <<>>
    /\ Checker(code_blocks[1].lang) = "none"
    /\ NextBlock
    /\ UNCHANGED <<inputVars, pool, args, tester, md_files, idx, pc, procVars, printed, success,
                   extVars, exit_status>>

\* a python block: counted; _test_python_code returns at once on a placeholder,
\* else writes the temporary file
TestPythonCode ==
    /\ pc = "code"
    /\ code_blocks # <<>>
    /\ Checker(code_blocks[1].lang) = "python"
    /\ tester' = [tester EXCEPT !.stats.code_blocks_tested = @ + 1]
    /\ IF HasPlaceholder(code_blocks[1].code)
       THEN /\ NextBlock
            /\ UNCHANGED <<pc, procVars>>
       ELSE /\ CreateTemp(".py")
            /\ pc' = "python"
            /\ UNCHANGED <<code_blocks, spawned>>
    /\ UNCHANGED <<inputVars, pool, args, md_files, idx, printed, success, extVars,
                   exit_status>>

\* subprocess.run(['python', '-m', 'py_compile', temp_file], timeout=5), the
\* handling of its outcome and the finally clause
RunPython ==
    /\ pc = "python"
    /\ \E outcome \in ProcessOutcomes :
           /\ tester' = PythonResult(tester, CurrentFile, outcome)
           /\ spawned' = Spawn("py_compile", code_blocks[1], outcome)
    /\ temp_files' = Unlink(temp_files, TempFile(".py"))
    /\ NextBlock
    /\ pc' = "code"
    /\ UNCHANGED <<inputVars, pool, args, md_files, idx, temp_seq, printed, success, extVars,
                   exit_status>>

\* a javascript block: counted; _test_javascript_code returns at once on a
\* placeholder, returns when 'node --version' cannot be run, else writes the
\* temporary file
TestJavascriptCode ==
    /\ pc = "code"
    /\ code_blocks # <<>>
    /\ Checker(code_blocks[1].lang) = "javascript"
    /\ tester' = [tester EXCEPT !.stats.code_blocks_tested = @ + 1]
    /\ IF HasPlaceholder(code_blocks[1].code)
       THEN /\ NextBlock
            /\ UNCHANGED <<pc, procVars>>
       ELSE \E node_available \in BOOLEAN :
                /\ spawned' = Spawn("node_version", code_blocks[1],
                                     [kind |-> IF node_available THEN "exit"
                                               ELSE "exception"])
                /\ IF node_available
                   THEN /\ CreateTemp(".js")
                        /\ pc' = "javascript"
                        /\ UNCHANGED code_blocks
                   ELSE /\ NextBlock
                        /\ UNCHANGED <<pc, temp_files, temp_seq>>
    /\ UNCHANGED <<inputVars, pool, args, md_files, idx, printed, success, extVars,
                   exit_status>>

\* subprocess.run(['node', '--check', temp_file], timeout=5), the handling of
\* its outcome and the finally clause
RunJavascript ==
    /\ pc = "javascript"
    /\ \E outcome \in ProcessOutcomes :
           /\ tester' = JavascriptResult(tester, CurrentFile, outcome)
           /\ spawned' = Spawn("node_check", code_blocks[1], outcome)
    /\ temp_files' = Unlink(temp_files, TempFile(".js"))
    /\ NextBlock
    /\ pc' = "code"
    /\ UNCHANGED <<inputVars, pool, args, md_files, idx, temp_seq, printed, success, extVars,
                   exit_status>>

\* a bash block: counted and checked by _test_bash_code
DoTestBashCode ==
    /\ pc = "code"
    /\ code_blocks # <<>>
    /\ Checker(code_blocks[1].lang) = "bash"
    /\ tester' = TestBashCode(
                     [tester EXCEPT !.stats.code_blocks_tested = @ + 1],
                     CurrentFile, code_blocks[1].code)
    /\ NextBlock
    /\ UNCHANGED <<inputVars, pool, args, md_files, idx, pc, procVars, printed, success,
                   extVars, exit_status>>

\* a block of a language without a check: counted only
OtherLanguage ==
    /\ pc = "code"
    /\ code_blocks # <<>>
    /\ Checker(code_blocks[1].lang) = "other"
    /\ tester' = [tester EXCEPT !.stats.code_blocks_tested = @ + 1]
    /\ NextBlock
    /\ UNCHANGED <<inputVars, pool, args, md_files, idx, pc, procVars, printed, success,
                   extVars, exit_status>>

\* _print_results and the return value of run_all_tests
PrintResults ==
    /\ pc = "print"
    /\ printed' = TRUE
    /\ success' = Verdict(tester)
    /\ pc' = "after_run"
    /\ UNCHANGED <<inputVars, pool, args, tester, runVars, procVars, extVars, exit_status>>

(***************************************************************************)
(* main, after run_all_tests; LinkChecker.check_external_links             *)
(***************************************************************************)
\* "Check external links if requested": import requests fails (the empty list is
\* returned) or the files are listed
AfterRun ==
    /\ pc = "after_run"
    /\ IF args.check_links
       THEN \E requests_available \in BOOLEAN :
                IF requests_available
                THEN /\ imported' = "imported"
                     /\ ext_files' = Glob(DOMAIN tree, DocsPath)
                     /\ pc' = "ext_loop"
                     /\ UNCHANGED warned
                ELSE /\ imported' = "ImportError"
                     /\ warned' = TRUE
                     /\ pc' = "ext_done"
                     /\ UNCHANGED ext_files
       ELSE /\ pc' = "exit"
            /\ UNCHANGED <<ext_files, imported, warned>>
    /\ UNCHANGED <<inputVars, pool, args, tester, runVars, procVars, printed, success,
                   ext_links, broken, requested, exit_status>>

\* the head of the loop over md_files of check_external_links; read_text may
\* raise here too
ExtNextFile ==
    /\ pc = "ext_loop"
    /\ IF ext_files = <<>>
       THEN /\ pc' = "ext_done"
            /\ UNCHANGED <<ext_files, ext_links>>
       ELSE IF IsSkippedExternalFile(ext_files[1])
       THEN /\ ext_files' = Tail(ext_files)
            /\ UNCHANGED <<pc, ext_links>>
       ELSE IF ~Decodable(tree[ext_files[1]])
       THEN /\ pc' = "crashed"
            /\ UNCHANGED <<ext_files, ext_links>>
       ELSE /\ ext_links' = FindExternalLinks(tree[ext_files[1]])
            /\ pc' = "ext_links"
            /\ UNCHANGED ext_files
    /\ exit_status' = IF pc' = "crashed" THEN 1 ELSE exit_status
    /\ UNCHANGED <<inputVars, pool, args, tester, runVars, procVars, printed, success, broken,
                   imported, requested, warned>>

\* one turn of the loop over links: requests.head and its outcome
ExtRequest ==
    /\ pc = "ext_links"
    /\ IF ext_links = <<>>
       THEN /\ ext_files' = Tail(ext_files)
            /\ pc' = "ext_loop"
            /\ UNCHANGED <<ext_links, broken, requested>>
       ELSE /\ \E outcome \in RequestOutcomes :
                   /\ broken' = ExternalResult(broken, ext_files[1], ext_links[1], outcome)
                   /\ requested' = Append(requested, [file |-> ext_files[1],
                                                      url |-> ext_links[1],
                                                      outcome |-> outcome])
            /\ ext_links' = Tail(ext_links)
            /\ UNCHANGED <<pc, ext_files>>
    /\ UNCHANGED <<inputVars, pool, args, tester, runVars, procVars, printed, success,
                   imported, warned, exit_status>>

\* "if broken: ... success = False"
ExtDone ==
    /\ pc = "ext_done"
    /\ success' = AfterSweep(success, broken)
    /\ pc' = "exit"
    /\ UNCHANGED <<inputVars, pool, args, tester, runVars, procVars, printed, extVars,
                   exit_status>>

\* sys.exit(0 if success else 1)
Exit ==
    /\ pc = "exit"
    /\ exit_status' = ExitCode(success)
    /\ pc' = "exited"
    /\ UNCHANGED <<inputVars, pool, args, tester, runVars, procVars, printed, success, extVars>>

(***************************************************************************)
(* The checks of several documents run by a pool of workers on one tester  *)
(***************************************************************************)
\* the body of the loop of run_all_tests for one document, without the code
\* examples
CheckDocument(t, fs, docs_path, filepath, content) ==
    CheckCommonIssues(
        CheckLinks(
            CheckMarkdownSyntax([t EXCEPT !.stats.files_checked = @ + 1],
                                filepath, content),
            fs, docs_path, filepath, content, FALSE),
        filepath, content)

\* the updates of the tester that the checks of one document make: the counter
\* of files and of links, then one append and one counter for every finding
Updates(fs, docs_path, filepath, content) ==
    LET t == CheckDocument(NewTester, fs, docs_path, filepath, content)
    IN  <<[list |-> "none", counter |-> "files_checked"]>>
        \o [i \in 1..t.stats.links_checked |->
                [list |-> "none", counter |-> "links_checked"]]
        \o [i \in 1..Len(t.errors) |->
                [list |-> "errors", finding |-> t.errors[i], counter |-> "errors"]]
        \o [i \in 1..Len(t.warnings) |->
                [list |-> "warnings", finding |-> t.warnings[i], counter |-> "warnings"]]

\* a worker that is to make the updates ops
NewWorker(ops) ==
    [ops |-> ops,
     at |-> IF ops = <<>> THEN "done"
            ELSE IF ops[1].list = "none" THEN "load" ELSE "append",
     reg |-> 0]

\* self.errors.append(...), self.warnings.append(...): one step
PoolAppend(w) ==
    /\ pc = "pool"
    /\ pool[w].at = "append"
    /\ tester' = [tester EXCEPT ![pool[w].ops[1].list] = Append(@, pool[w].ops[1].finding)]
    /\ pool' = [pool EXCEPT ![w].at = "load"]
    /\ UNCHANGED <<inputVars, args, pc, runVars, procVars, printed, success, extVars,
                   exit_status>>

\* self.stats[counter] += 1, first half: the counter is read
PoolLoad(w) ==
    /\ pc = "pool"
    /\ pool[w].at = "load"
    /\ pool' = [pool EXCEPT ![w].reg = tester.stats[pool[w].ops[1].counter],
                            ![w].at = "store"]
    /\ UNCHANGED <<inputVars, args, pc, tester, runVars, procVars, printed, success,
                   extVars, exit_status>>

\* self.stats[counter] += 1, second half: the value read, plus one, is written
PoolStore(w) ==
    /\ pc = "pool"
    /\ pool[w].at = "store"
    /\ tester' = [tester EXCEPT !.stats[pool[w].ops[1].counter] = pool[w].reg + 1]
    /\ pool' = [pool EXCEPT ![w] = NewWorker(Tail(pool[w].ops))]
    /\ UNCHANGED <<inputVars, args, pc, runVars, procVars, printed, success, extVars,
                   exit_status>>

NextPool == \E w \in 1..Len(pool) : PoolAppend(w) \/ PoolLoad(w) \/ PoolStore(w)

Next ==
    \/ Main
    \/ RunStart
    \/ LoopNext
    \/ DoCheckMarkdownSyntax
    \/ DoCheckLinks
    \/ DoCheckCommonIssues
    \/ CodeDone
    \/ SkipNonExecutable
    \/ TestPythonCode
    \/ RunPython
    \/ TestJavascriptCode
    \/ RunJavascript
    \/ DoTestBashCode
    \/ OtherLanguage
    \/ PrintResults
    \/ AfterRun
    \/ ExtNextFile
    \/ ExtRequest
    \/ ExtDone
    \/ Exit

(***************************************************************************)
(* Inputs: the documentation trees and command lines the runs start from   *)
(***************************************************************************)
\* documents: at the root, one level down, in a directory whose name holds a
\* '#', and in directories the loops skip
DocA == <<<<"d", "o", "c", "s">>, <<"a", ".", "m", "d">>>>
DocB == <<<<"d", "o", "c", "s">>, <<"s", "u", "b">>, <<"b", ".", "m", "d">>>>
DocC == <<<<"d", "o", "c", "s">>, <<"c", "#">>, <<"d", ".", "m", "d">>>>
DocN == <<<<"d", "o", "c", "s">>, <<"n", "o", "d", "e", "_", "m", "o", "d", "u", "l", "e", "s">>, <<"n", ".", "m", "d">>>>

\* files that links point to
TargetRoot == <<<<"d", "o", "c", "s">>, <<"x", ".", "t", "x", "t">>>>
TargetSub == <<<<"d", "o", "c", "s">>, <<"s", "u", "b">>, <<"x", ".", "t", "x", "t">>>>
TargetC == <<<<"d", "o", "c", "s">>, <<"c", "#">>, <<"x", ".", "t", "x", "t">>>>

\* the fields of the namespace parse_args returns
ArgSets == [execute_examples : BOOLEAN, check_links : BOOLEAN, fix : BOOLEAN,
            all : BOOLEAN]

NoArgs == [execute_examples |-> FALSE, check_links |-> FALSE, fix |-> FALSE,
           all |-> FALSE]

\* the tree that holds the documents docs (path -> text) and the files targets
TreeOf(docs, targets) ==
    [f \in DOMAIN docs \cup targets |-> IF f \in DOMAIN docs THEN docs[f] ELSE <<>>]

\* no content has been given to the generator
GenIdle == [at |-> "idle", content |-> <<>>, preserved |-> <<>>, clean_content |-> <<>>,
            result |-> <<>>]
\* None, where a version is expected
NoVersion == <<>>

\* docs/versions exists and is empty; there is no versions.json and no
\* version-selector.md, and nothing has been printed
MgrIdle == [file |-> FALSE, versions |-> <<>>, latest |-> NoVersion, dirs |-> {},
            selector |-> <<>>, said |-> [msg |-> "", version |-> NoVersion]]

\* the state of test_docs.py when main is entered
TesterStart(t, exists, a) ==
    /\ tree = t
    /\ root_exists = exists
    /\ args = a
    /\ pc = "main"
    /\ tester = NewTester
    /\ md_files = <<>>
    /\ idx = 0
    /\ code_blocks = <<>>
    /\ temp_files = {}
    /\ temp_seq = 0
    /\ spawned = <<>>
    /\ printed = FALSE
    /\ success = FALSE
    /\ ext_files = <<>>
    /\ ext_links = <<>>
    /\ broken = <<>>
    /\ imported = ""
    /\ requested = <<>>
    /\ warned = FALSE
    /\ exit_status = -1
    /\ pool = <<>>

\* the state when main is entered
Start(t, exists, a) ==
    /\ TesterStart(t, exists, a)
    /\ gen = GenIdle
    /\ mgr = MgrIdle

\* documents of the runs every specification starts from: headings only; a TODO
\* marker, a local and an external link; one code block of each kind; a text
\* with a byte that cannot be decoded
TextHeadings == <<"#", " ", "T", NL, "#", " ", "U", NL>>
TextLinks == <<"T", "O", "D", "O", NL, "[", "a", "]", "(", "x", ".", "t", "x", "t", ")", NL, "[", "e", "]", "(", "h", "t", "t", "p", ":", "/", "/", "h", ")", NL>>
TextBad == <<"t", BadByte, NL>>
TextCode ==
    Flatten(<<Fence, <<"p", "y", "t", "h", "o", "n", NL, "x", NL>>, Fence, <<NL>>,
              Fence, <<"j", "s", NL, "x", NL>>, Fence, <<NL>>,
              Fence, <<"b", "a", "s", "h", NL, "e", "c", "h", "o", " ", "\"", NL>>, Fence, <<NL>>,
              Fence, <<"c", NL, "x", NL>>, Fence, <<NL>>,
              Fence, <<"j", "s", "o", "n", NL, "x", NL>>, Fence, <<NL>>>>)

\* a partial function: the slots that hold a text
Placed(slots, text) == [f \in {g \in slots : text[g] # "absent"} |-> text[f]]

\* every command line, on a missing root, an empty root, and small trees
InitCommon ==
    \E a \in ArgSets :
        \/ Start(<<>>, FALSE, a)
        \/ \E ta \in {"absent", TextHeadings, TextLinks, TextCode},
              tb \in {"absent", TextLinks, TextBad},
              tn \in {"absent", TextHeadings},
              targets \in SUBSET {TargetRoot} :
               Start(TreeOf(Placed({DocA, DocB, DocN},
                                   (DocA :> ta) @@ (DocB :> tb) @@ (DocN :> tn)),
                            targets),
                     TRUE, a)

Spec == InitCommon /\ [][Next]_vars

(***************************************************************************)
(* Trees whose documents are built from fragments                          *)
(***************************************************************************)
\* the texts made of n fragments
Texts(frags, n) == {Flatten(seq) : seq \in [1..n -> frags]}

\* trees with up to three documents that hold at most max fragments together;
\* a slot without a fragment holds no document
InitFragments(frags, max, slots, targetSet, a) ==
    \E n1 \in 0..max :
    \E n2 \in 0..(max - n1) :
    \E n3 \in 0..(max - n1 - n2) :
    \E t1 \in Texts(frags, n1), t2 \in Texts(frags, n2), t3 \in Texts(frags, n3) :
    \E targets \in SUBSET targetSet :
        Start(TreeOf([f \in {slots[k] : k \in {k \in 1..3 : <<n1, n2, n3>>[k] > 0}} |->
                         IF f = slots[1] /\ n1 > 0 THEN t1
                         ELSE IF f = slots[2] /\ n2 > 0 THEN t2
                         ELSE t3],
                     targets),
              TRUE, a)

\* links: document-relative, root-relative, through the parent directory, below
\* the root, and with an anchor
LinkFrags ==
    {<<"[", "a", "]", "(", "x", ".", "t", "x", "t", ")", NL>>,
     <<"[", "a", "]", "(", "/", "x", ".", "t", "x", "t", ")", NL>>,
     <<"[", "a", "]", "(", ".", ".", "/", "x", ".", "t", "x", "t", ")", NL>>,
     <<"[", "a", "]", "(", "/", "s", "u", "b", "/", "x", ".", "t", "x", "t", ")", NL>>,
     <<"[", "a", "]", "(", "x", ".", "t", "x", "t", "#", "s", ")", NL>>}

MaxLinkFrags == 2

InitLinks ==
    InitFragments(LinkFrags, MaxLinkFrags, <<DocA, DocB, DocC>>,
                  {TargetRoot, TargetSub, TargetC}, NoArgs)

SpecLinks == (InitCommon \/ InitLinks) /\ [][Next]_vars

\* structure: a level-1 heading, a level-3 heading, a fence on a line of its
\* own, and a line that holds two fences
SyntaxFrags ==
    {<<"#", " ", "T", NL>>,
     <<"#", "#", "#", " ", "S", NL>>,
     <<BQ, BQ, BQ, NL>>,
     <<BQ, BQ, BQ, "x", BQ, BQ, BQ, NL>>}

MaxSyntaxFrags == 3

InitSyntax ==
    InitFragments(SyntaxFrags, MaxSyntaxFrags, <<DocA, DocB, DocN>>, {}, NoArgs)

SpecSyntax == (InitCommon \/ InitSyntax) /\ [][Next]_vars

\* a fenced block with a tag and a one-line body
Block(tag, body) == Flatten(<<Fence, tag, <<NL>>, body, <<NL>>, Fence, <<NL>>>>)

\* bodies with an unmatched quote: plain, with each placeholder marker, with a
\* token that is no API key, and with a destructive command
BodyPlain == <<"e", "c", "h", "o", " ", "\"">>
BodyApiKey == <<"Y", "O", "U", "R", "_", "A", "P", "I", "_", "K", "E", "Y", " ", "\"">>
BodyHost == <<"e", "x", "a", "m", "p", "l", "e", ".", "c", "o", "m", " ", "\"">>
BodyYour == <<"Y", "o", "u", "r", "-", "x", " ", "\"">>
BodyToken == <<"Y", "O", "U", "R", "_", "T", "O", "K", "E", "N", " ", "\"">>
BodyDanger == <<"r", "m", " ", "-", "r", "f", " ", "\"">>

CodeFrags ==
    {Block(<<"p", "y", "t", "h", "o", "n">>, b) : b \in {BodyPlain, BodyApiKey, BodyHost, BodyYour, BodyToken}}
    \cup {Block(<<"J", "S">>, b) : b \in {BodyPlain, BodyHost}}
    \cup {Block(<<"b", "a", "s", "h">>, b) :
              b \in {BodyPlain, BodyApiKey, BodyHost, BodyYour, BodyToken, BodyDanger}}
    \cup {Block(t, BodyPlain) :
              t \in {<<"J", "S", "O", "N">>, <<"t", "e", "x", "t">>, <<"M", "a", "r", "k", "d", "o", "w", "n">>, <<"y", "a", "m", "l">>, <<"Y", "M", "L">>, <<"o", "u", "t", "p", "u", "t">>}}

MaxCodeBlocks == 2

ExecuteArgs == [NoArgs EXCEPT !.execute_examples = TRUE]

InitCode ==
    \E n \in 1..MaxCodeBlocks : \E t \in Texts(CodeFrags, n) :
        Start(TreeOf((DocA :> t), {}), TRUE, ExecuteArgs)

SpecCode == (InitCommon \/ InitCode) /\ [][Next]_vars

\* bash bodies: an unmatched quote alone, with each destructive pattern (one of
\* them on another line than the quote), matched quotes, a comment
BashBodies ==
    {<<"e", "c", "h", "o", " ", "\"">>,
     <<"r", "m", " ", "-", "r", "f", " ", "\"">>,
     <<"d", "d", " ", "i", "f", "=", " ", "\"">>,
     <<"e", "c", "h", "o", " ", "\"", NL, "m", "k", "f", "s">>,
     <<":", "(", ")", "{", ":", "|", ":", "&", "}", ";", ":", " ", "\"">>,
     <<"e", "c", "h", "o", " ", "\"", "\"">>,
     <<"#", " ", "\"">>}

BashFrags ==
    {Block(t, b) : t \in {<<"b", "a", "s", "h">>, <<"B", "A", "S", "H">>}, b \in BashBodies}
        \cup {Block(<<"p", "y", "t", "h", "o", "n">>, BodyPlain)}

MaxBashBlocks == 2

InitBash ==
    \E n \in 1..MaxBashBlocks : \E t \in Texts(BashFrags, n) :
        Start(TreeOf((DocA :> t), {}), TRUE, ExecuteArgs)

SpecBash == (InitCommon \/ InitBash) /\ [][Next]_vars

\* a document inside a version-control directory: run_all_tests skips it,
\* check_external_links reads it
DocG == <<<<"d", "o", "c", "s">>, <<".", "g", "i", "t">>, <<"g", ".", "m", "d">>>>

\* a link whose target is one character longer than a file name may be
LongNameLink ==
    <<"[", "a", "]", "(">> \o [i \in 1..(NameMax + 1) |-> "y"] \o <<")", NL>>

\* a plain line, a line with an undecodable byte, a broken link, a link with an
\* over-long target
FaultFrags ==
    {<<"t", NL>>,
     <<"t", BadByte, NL>>,
     <<"[", "a", "]", "(", "x", ".", "t", "x", "t", ")", NL>>,
     LongNameLink}

MaxFaultFrags == 2

InitFaults ==
    \E a \in {NoArgs, [NoArgs EXCEPT !.check_links = TRUE]} :
        InitFragments(FaultFrags, MaxFaultFrags, <<DocA, DocB, DocG>>, {}, a)

SpecFaults == (InitCommon \/ InitFaults) /\ [][Next]_vars

\* external links over http and https, a local link and a plain line
ExternalFrags ==
    {<<"[", "e", "]", "(", "h", "t", "t", "p", ":", "/", "/", "h", ")", NL>>,
     <<"[", "s", "]", "(", "h", "t", "t", "p", "s", ":", "/", "/", "s", ")", NL>>,
     <<"[", "a", "]", "(", "x", ".", "t", "x", "t", ")", NL>>,
     <<"t", NL>>}

MaxExternalFrags == 2

\* runs with --check-links; DocN lies in node_modules, DocG in .git
InitExternal ==
    InitFragments(ExternalFrags, MaxExternalFrags, <<DocA, DocN, DocG>>, {},
                  [NoArgs EXCEPT !.check_links = TRUE])

SpecExternal == (InitCommon \/ InitExternal) /\ [][Next]_vars

\* a document in a directory whose name starts like that of a version-control
\* directory, and a document whose own name holds that of one
DocH == <<<<"d", "o", "c", "s">>, <<".", "g", "i", "t", "h", "u", "b">>, <<"h", ".", "m", "d">>>>
DocM == <<<<"d", "o", "c", "s">>, <<"a", ".", "g", "i", "t", ".", "m", "d">>>>

\* a plain line; a broken link
TextPlain == <<"t", NL>>
TextBroken == <<"[", "a", "]", "(", "x", ".", "t", "x", "t", ")", NL>>

\* trees whose documents lie in the root, in node_modules, in .git and in .github
InitFiles ==
    \E ta \in {"absent", TextPlain, TextHeadings, TextBroken},
       tn \in {"absent", TextHeadings},
       tg \in {"absent", TextHeadings},
       th \in {"absent", TextPlain, TextHeadings, TextBroken},
       tm \in {"absent", TextHeadings} :
        Start(TreeOf(Placed({DocA, DocN, DocG, DocH, DocM},
                            (DocA :> ta) @@ (DocN :> tn) @@ (DocG :> tg) @@ (DocH :> th)
                                @@ (DocM :> tm)),
                     {}),
              TRUE, NoArgs)

SpecFiles == (InitCommon \/ InitFiles) /\ [][Next]_vars

\* links of every kind: local, anchor, mail, http and https; a plain line
KindFrags ==
    {<<"[", "a", "]", "(", "x", ".", "t", "x", "t", ")", NL>>,
     <<"[", "h", "]", "(", "#", "s", ")", NL>>,
     <<"[", "m", "]", "(", "m", "a", "i", "l", "t", "o", ":", "m", ")", NL>>,
     <<"[", "e", "]", "(", "h", "t", "t", "p", ":", "/", "/", "h", ")", NL>>,
     <<"[", "s", "]", "(", "h", "t", "t", "p", "s", ":", "/", "/", "s", ")", NL>>,
     <<"t", NL>>}

MaxKindFrags == 2

InitKinds ==
    InitFragments(KindFrags, MaxKindFrags, <<DocA, DocB, DocN>>, {TargetRoot}, NoArgs)

SpecKinds == (InitCommon \/ InitKinds) /\ [][Next]_vars

\* a python block that is closed, one whose closing fence is missing, and a
\* plain line
OpenFrags ==
    {Block(<<"p", "y", "t", "h", "o", "n">>, <<"x">>),
     Flatten(<<Fence, <<"p", "y", "t", "h", "o", "n", NL, "y", NL>>>>),
     <<"t", NL>>}

MaxOpenFrags == 2

InitOpen ==
    InitFragments(OpenFrags, MaxOpenFrags, <<DocA, DocB, DocN>>, {}, ExecuteArgs)

SpecOpen == (InitCommon \/ InitOpen) /\ [][Next]_vars

\* headings of the levels 1 to 4, an indented heading of level 3, a plain line
HeadingFrags ==
    {<<"#", " ", "T", NL>>,
     <<"#", "#", " ", "S", NL>>,
     <<"#", "#", "#", " ", "U", NL>>,
     <<"#", "#", "#", "#", " ", "V", NL>>,
     <<" ", " ", "#", "#", "#", " ", "I", NL>>,
     <<"t", NL>>}

MaxHeadingFrags == 3

InitHeadings ==
    InitFragments(HeadingFrags, MaxHeadingFrags, <<DocA, DocB, DocN>>, {}, NoArgs)

SpecHeadings == (InitCommon \/ InitHeadings) /\ [][Next]_vars

\* links without a target, with a target of one space, with a target that does
\* not exist; a plain line
EmptyFrags ==
    {<<"[", "a", "]", "(", ")", NL>>,
     <<"[", "b", "]", "(", " ", ")", NL>>,
     <<"[", "c", "]", "(", "y", ".", "t", "x", "t", ")", NL>>,
     <<"t", NL>>}

MaxEmptyFrags == 2

InitEmpty ==
    InitFragments(EmptyFrags, MaxEmptyFrags, <<DocA, DocB, DocN>>, {}, NoArgs)

SpecEmpty == (InitCommon \/ InitEmpty) /\ [][Next]_vars

(***************************************************************************)
(* generate_docs.py: the code blocks kept out of a translation             *)
(***************************************************************************)
DecimalDigits == <<"0", "1", "2", "3", "4", "5", "6", "7", "8", "9">>

\* str(n) for n >= 0
RECURSIVE Decimal(_)
Decimal(n) ==
    IF n < 10 THEN <<DecimalDigits[n + 1]>>
    ELSE Decimal(n \div 10) \o <<DecimalDigits[(n % 10) + 1]>>

\* s.replace(old, new)
RECURSIVE Replace(_, _, _)
Replace(s, old, new) ==
    LET j == FindFrom(s, old, 1)
    IN  IF j = 0 THEN s
        ELSE SubSeq(s, 1, j - 1) \o new \o Replace(Drop(s, j + Len(old)), old, new)

\* "<<<CODE_BLOCK_{}>>>".format(n) and f"<<<INLINE_CODE_{n}>>>"
CodePlaceholder(n) == <<"<", "<", "<", "C", "O", "D", "E", "_", "B", "L", "O", "C", "K", "_">> \o Decimal(n) \o <<">", ">", ">">>
InlinePlaceholder(n) == <<"<", "<", "<", "I", "N", "L", "I", "N", "E", "_", "C", "O", "D", "E", "_">> \o Decimal(n) \o <<">", ">", ">">>

\* list(re.finditer(r'FENCE[\s\S]*?FENCE', s)), FENCE the triple backquote: the
\* first and the last offset of every match
RECURSIVE CodeMatchesFrom(_, _)
CodeMatchesFrom(s, from) ==
    LET i == FindFrom(s, Fence, from)
        e == IF i = 0 THEN 0 ELSE FindFrom(s, Fence, i + 3)
    IN  IF i = 0 \/ e = 0 THEN <<>>
        ELSE <<[start |-> i, end |-> e + 2]>> \o CodeMatchesFrom(s, e + 3)

\* list(re.finditer(r'Q[^Q]+Q', s)), Q the backquote
RECURSIVE InlineMatchesFrom(_, _)
InlineMatchesFrom(s, from) ==
    LET i == FindFrom(s, <<BQ>>, from)
        e == IF i = 0 THEN 0 ELSE FindFrom(s, <<BQ>>, i + 1)
    IN  IF i = 0 \/ e = 0 THEN <<>>
        ELSE IF e > i + 1
             THEN <<[start |-> i, end |-> e]>> \o InlineMatchesFrom(s, e + 1)
             ELSE InlineMatchesFrom(s, i + 1)

\* the loop over enumerate(reversed(matches)): the match is put at the front of
\* preserved and its span of clean_content gives way to the placeholder
RECURSIVE PreserveLoop(_, _, _, _, _, _)
PreserveLoop(preserved, clean_content, src, matches, i, inline) ==
    IF i >= Len(matches) THEN [preserved |-> preserved, clean_content |-> clean_content]
    ELSE LET match == matches[Len(matches) - i]
         IN  PreserveLoop(<<SubSeq(src, match.start, match.end)>> \o preserved,
                          SubSeq(clean_content, 1, match.start - 1)
                              \o (IF inline THEN InlinePlaceholder(Len(matches) - 1 - i)
                                  ELSE CodePlaceholder(Len(matches) - 1 - i))
                              \o Drop(clean_content, match.end + 1),
                          src, matches, i + 1, inline)

\* _extract_code_blocks: the fenced blocks, then the inline code of what is left
ExtractCodeBlocks(content) ==
    LET blocks == PreserveLoop(<<>>, content, content, CodeMatchesFrom(content, 1), 0,
                               FALSE)
    IN  PreserveLoop(blocks.preserved, blocks.clean_content, blocks.clean_content,
                     InlineMatchesFrom(blocks.clean_content, 1), 0, TRUE)

\* _restore_code_blocks: the loop over enumerate(preserved)
RECURSIVE RestoreLoop(_, _, _)
RestoreLoop(result, preserved, i) ==
    IF i >= Len(preserved) THEN result
    ELSE LET block == preserved[i + 1]
         IN  RestoreLoop(IF StartsWith(block, Fence)
                         THEN Replace(result, CodePlaceholder(i), block)
                         ELSE IF StartsWith(block, <<BQ>>)
                         THEN Replace(result, InlinePlaceholder(i), block)
                         ELSE result,
                         preserved, i + 1)

RestoreCodeBlocks(content, preserved) == RestoreLoop(content, preserved, 0)

\* the variables of test_docs.py
testerVars == <<tree, root_exists, args, pc, tester, runVars, procVars, printed, success,
                extVars, exit_status, pool>>

\* preserved_blocks, clean_content = self._extract_code_blocks(content)
GenExtract ==
    /\ gen.at = "content"
    /\ LET extracted == ExtractCodeBlocks(gen.content)
       IN  gen' = [gen EXCEPT !.at = "extracted",
                              !.preserved = extracted.preserved,
                              !.clean_content = extracted.clean_content]
    /\ UNCHANGED <<testerVars, mgr>>

\* self._restore_code_blocks(translated, preserved_blocks), for a translation
\* that has left the text as it was
GenRestore ==
    /\ gen.at = "extracted"
    /\ gen' = [gen EXCEPT !.at = "restored",
                          !.result = RestoreCodeBlocks(gen.clean_content, gen.preserved)]
    /\ UNCHANGED <<testerVars, mgr>>

NextGen == GenExtract \/ GenRestore

\* an inline span, two fenced blocks, a word, a lone backquote
GenFrags ==
    {<<BQ, "a", BQ, " ">>,
     <<BQ, BQ, BQ, "x", BQ, BQ, BQ, " ">>,
     <<BQ, BQ, BQ, "p", "y", NL, "y", NL, BQ, BQ, BQ, NL>>,
     <<"t", " ">>,
     <<BQ, " ">>}

MaxGenFrags == 3

InitGen ==
    \E n \in 0..MaxGenFrags : \E c \in Texts(GenFrags, n) :
        /\ TesterStart(<<>>, FALSE, NoArgs)
        /\ gen = [GenIdle EXCEPT !.at = "content", !.content = c]
        /\ mgr = MgrIdle

SpecGen == InitGen /\ [][NextGen]_vars

(***************************************************************************)
(* version_docs.py: the versions of the documentation                      *)
(***************************************************************************)
\* the characters of the version strings, in the order of their code points
CodePoints ==
    <<"-", ".", "0", "1", "2", "3", "4", "5", "6", "7", "8", "9",
      "a", "b", "c", "d", "e", "f", "g", "h", "i", "j", "k", "l", "m",
      "n", "o", "p", "q", "r", "s", "t", "u", "v", "w", "x", "y", "z">>

\* ord(c), up to the order
Ord(c) == CHOOSE n \in 1..Len(CodePoints) : CodePoints[n] = c

\* the first position at which two sequences differ, 0 when one is a prefix of
\* the other
FirstDifference(a, b) ==
    LET shorter == IF Len(a) < Len(b) THEN Len(a) ELSE Len(b)
        differ == {i \in 1..shorter : a[i] # b[i]}
    IN  IF differ = {} THEN 0 ELSE CHOOSE i \in differ : \A k \in differ : i <= k

\* a < b for two strings
StrLess(a, b) ==
    LET i == FirstDifference(a, b)
    IN  IF i = 0 THEN Len(a) < Len(b) ELSE Ord(a[i]) < Ord(b[i])

\* p.isdigit()
IsDigit(p) == p # <<>> /\ \A i \in 1..Len(p) : p[i] \in Digits

\* int(p) for a string of digits
RECURSIVE IntOf(_)
IntOf(p) ==
    IF p = <<>> THEN 0
    ELSE 10 * IntOf(SubSeq(p, 1, Len(p) - 1))
            + (CHOOSE n \in 0..9 : DecimalDigits[n + 1] = p[Len(p)])

\* int(p) if p.isdigit() else p: a component of a key is a number or a string
KeyPart(p) ==
    IF IsDigit(p) THEN [num |-> TRUE, n |-> IntOf(p), s |-> <<>>]
    ELSE [num |-> FALSE, n |-> 0, s |-> p]

\* version_key: the tuple of the components of the version.  The except
\* branch is not reached: int is only applied to strings of digits.
VersionKey(version_info) ==
    LET parts == Split(version_info.version, ".")
    IN  [i \in 1..Len(parts) |-> KeyPart(parts[i])]

\* comparing two keys raises TypeError: the first components that differ are a
\* number and a string
KeyRaises(k1, k2) ==
    LET i == FirstDifference(k1, k2)
    IN  i # 0 /\ k1[i].num # k2[i].num

\* k1 < k2 for two tuples that can be compared
KeyLess(k1, k2) ==
    LET i == FirstDifference(k1, k2)
    IN  IF i = 0 THEN Len(k1) < Len(k2)
        ELSE IF k1[i].num THEN k1[i].n < k2[i].n
        ELSE StrLess(k1[i].s, k2[i].s)

\* list.sort raises: two of the keys cannot be compared
SortRaises(versions) ==
    \E i \in 1..Len(versions) : \E j \in 1..Len(versions) :
        KeyRaises(VersionKey(versions[i]), VersionKey(versions[j]))

\* the entry e put into a list in descending order, behind the entries that
\* are not less than it
InsertDescending(sorted, e) ==
    LET ahead == {i \in 1..Len(sorted) : ~KeyLess(VersionKey(sorted[i]), VersionKey(e))}
        n == Cardinality(ahead)
    IN  SubSeq(sorted, 1, n) \o <<e>> \o SubSeq(sorted, n + 1, Len(sorted))

\* versions.sort(key=version_key, reverse=True): descending, and entries with
\* equal keys stay in the order they had
RECURSIVE SortVersions(_)
SortVersions(versions) ==
    IF versions = <<>> THEN <<>>
    ELSE InsertDescending(SortVersions(SubSeq(versions, 1, Len(versions) - 1)),
                          versions[Len(versions)])

\* the entries of version-selector.md: the version, its status and whether it
\* carries the badge of the latest version
SelectorOf(versions, latest) ==
    [i \in 1..Len(versions) |->
        [version |-> versions[i].version,
         status |-> versions[i].status,
         latest |-> versions[i].version = latest]]

\* the entry appended for a new version; updated_at and deprecated_at are
\* kept as "is present"
VersionInfo(version, previous_version) ==
    [version |-> version, previous_version |-> previous_version, status |-> "current",
     updated_at |-> FALSE, deprecated_at |-> FALSE]

\* the list of _update_versions_metadata before it is sorted
UpdatedVersions(versions, version, previous_version) ==
    IF \E i \in 1..Len(versions) : versions[i].version = version
    THEN [i \in 1..Len(versions) |->
             IF versions[i].version = version
             THEN [versions[i] EXCEPT !.updated_at = TRUE]
             ELSE versions[i]]
    ELSE Append(versions, VersionInfo(version, previous_version))

\* _update_versions_metadata and _generate_version_selector, for the state m
\* in which the directory of the version has been made
UpdateVersionsMetadata(m, version, previous_version) ==
    LET updated == UpdatedVersions(m.versions, version, previous_version)
        sorted == SortVersions(updated)
    IN  IF SortRaises(updated)
        THEN [m EXCEPT !.said = [msg |-> "TypeError", version |-> version]]
        ELSE [m EXCEPT !.file = TRUE,
                       !.versions = sorted,
                       !.latest = sorted[1].version,
                       !.selector = SelectorOf(sorted, sorted[1].version),
                       !.said = [msg |-> "created", version |-> version]]

\* the versions a run may create
MaxVersions == 3

\* create_version(version, previous_version), with the answer given to
\* "Overwrite? (y/N)" when the directory of the version exists
CreateVersion(version, previous_version, response) ==
    /\ version \in mgr.dirs \/ Cardinality(mgr.dirs) < MaxVersions
    /\ mgr' = IF version \in mgr.dirs /\ Lower(response) # <<"y">>
              THEN [mgr EXCEPT !.said = [msg |-> "cancelled", version |-> version]]
              ELSE UpdateVersionsMetadata([mgr EXCEPT !.dirs = @ \cup {version}],
                                          version, previous_version)
    /\ UNCHANGED <<testerVars, gen>>

\* deprecate_version(version)
DeprecateVersion(version) ==
    /\ mgr' =
        IF ~mgr.file
        THEN [mgr EXCEPT !.said = [msg |-> "no_versions", version |-> NoVersion]]
        ELSE LET found == {i \in 1..Len(mgr.versions) : mgr.versions[i].version = version}
             IN  IF found = {}
                 THEN [mgr EXCEPT !.said = [msg |-> "not_found", version |-> version]]
                 ELSE LET first == CHOOSE i \in found : \A k \in found : i <= k
                          versions == [mgr.versions EXCEPT ![first].status = "deprecated",
                                                           ![first].deprecated_at = TRUE]
                      IN  [mgr EXCEPT !.versions = versions,
                                      !.selector = SelectorOf(versions, mgr.latest),
                                      !.said = [msg |-> "deprecated", version |-> version]]
    /\ UNCHANGED <<testerVars, gen>>

\* versions of numbers, and versions with a component that is not a number
VersionPool ==
    {<<"1", ".", "9">>, <<"1", ".", "1", "0">>, <<"2", ".", "0">>, <<"1", ".", "x">>, <<"v", "9">>, <<"v", "1", "0">>}

PreviousVersions == {NoVersion, <<"1", ".", "9">>}

Responses == {<<"y">>, <<"Y">>, <<"n">>}

NextMgr ==
    \/ \E version \in VersionPool : \E previous_version \in PreviousVersions :
       \E response \in Responses :
           CreateVersion(version, previous_version, response)
    \/ \E version \in VersionPool : DeprecateVersion(version)

InitMgr ==
    /\ TesterStart(<<>>, FALSE, NoArgs)
    /\ gen = GenIdle
    /\ mgr = MgrIdle

SpecMgr == InitMgr /\ [][NextMgr]_vars

\* documents for the workers of a pool: a plain line, two level-1 headings (one
\* warning), a broken link (one link, one error)
PoolTexts ==
    {<<"t", NL>>,
     <<"#", " ", "T", NL, "#", " ", "U", NL>>,
     <<"[", "a", "]", "(", "x", ".", "t", "x", "t", ")", NL>>}

MaxWorkers == 2

\* every worker is given one document; the tester they share is new
InitPool ==
    \E n \in 1..MaxWorkers : \E texts \in [1..n -> PoolTexts] :
        LET docs == [k \in 1..n |-> <<<<"d", "o", "c", "s">>, <<"d", "o", "c">> \o <<"a", "b", "c", "d">>[k] \o <<".", "m", "d">>>>]
            t == [f \in {docs[k] : k \in 1..n} |->
                     texts[CHOOSE k \in 1..n : docs[k] = f]]
        IN  /\ tree = t
            /\ gen = GenIdle
            /\ mgr = MgrIdle
            /\ root_exists = TRUE
            /\ args = NoArgs
            /\ pc = "pool"
            /\ tester = NewTester
            /\ md_files = docs
            /\ idx = 0
            /\ code_blocks = <<>>
            /\ temp_files = {}
            /\ temp_seq = 0
            /\ spawned = <<>>
            /\ printed = FALSE
            /\ success = FALSE
            /\ ext_files = <<>>
            /\ ext_links = <<>>
            /\ broken = <<>>
            /\ imported = ""
            /\ requested = <<>>
            /\ warned = FALSE
            /\ exit_status = -1
            /\ pool = [k \in 1..n |->
                          NewWorker(Updates(DOMAIN t, DocsPath, docs[k], t[docs[k]]))]

SpecPool == InitPool /\ [][NextPool]_vars

(***************************************************************************)
(* Claims about the verdict and the exit status                            *)
(***************************************************************************)
\* run_all_tests has returned and main has not gone on yet
Returned == pc = "after_run"

\* glob found at least one markdown file
FoundFiles == md_files # <<>>

\* C1 as stated: for every run of run_all_tests the returned success is true
\* exactly when the error count at the end of the run is zero.
C1_VerdictEveryRun ==
    Returned => (success <=> tester.stats.errors = 0)

\* C1, amended: for every run of run_all_tests that finds at least one markdown
\* file, the returned success is true exactly when the error count at the end of
\* the run is zero, whatever the number of warnings; a run that finds no
\* markdown file returns False with an error count of zero.
C1_VerdictWhenFilesFound ==
    Returned =>
        /\ FoundFiles => (success <=> tester.stats.errors = 0)
        /\ ~FoundFiles => ~success /\ tester.stats.errors = 0

\* a run that returned success although warnings were recorded
C1_Witness ==
    /\ Returned
    /\ FoundFiles
    /\ success
    /\ tester.stats.warnings > 0

\* the process has ended on a root that exists: by sys.exit, or by an exception
\* that nothing caught
ExitedOnRoot == pc \in {"exited", "crashed"} /\ root_exists

\* external-link checking was requested and reported a broken link
ExternalFailure == args.check_links /\ broken # <<>>

\* C2 as stated: on an existing root the exit status is zero when the error
\* count is zero, whatever the warnings, and non-zero otherwise; and non-zero
\* when external-link checking was requested and found a broken link.
C2_ExitStatusEveryRun ==
    pc = "exited" /\ root_exists =>
        (exit_status = 0 <=> tester.stats.errors = 0 /\ ~ExternalFailure)

\* C2, amended: on an existing root under which at least one markdown file is
\* found, the exit status is zero exactly when main reached its sys.exit call,
\* the error count is zero and external-link checking, if requested, reported
\* no broken link; when no markdown file is found, or an uncaught exception
\* ended the process, the exit status is non-zero.
C2_ExitStatusWhenFilesFound ==
    ExitedOnRoot =>
        /\ FoundFiles =>
               (exit_status = 0 <=>
                    pc = "exited" /\ tester.stats.errors = 0 /\ ~ExternalFailure)
        /\ ~FoundFiles => exit_status # 0

\* an exit with a non-zero status that only a broken external link caused, with
\* warnings but no error recorded by the local checks
C2_Witness ==
    /\ pc = "exited"
    /\ root_exists
    /\ FoundFiles
    /\ tester.stats.errors = 0
    /\ tester.stats.warnings > 0
    /\ ExternalFailure
    /\ exit_status # 0

(***************************************************************************)
(* Claims about the resolution of local links                              *)
(***************************************************************************)
\* the documents the loop of run_all_tests has checked once it has returned
CheckedDocs == {md_files[k] : k \in {k \in 1..Len(md_files) : ~IsSkippedFile(md_files[k])}}

\* the target of a link without its anchor fragment
BeforeHash(url) == IF Contains(url, <<Hash>>) THEN Split(url, Hash)[1] ELSE url

IsLocalLink(url) == ~IsSkippedLink(url)

\* the targets of the links of d
LinkUrls(d) ==
    LET links == FindLinks(tree[d]) IN {links[i].url : i \in 1..Len(links)}

\* the urls of the document-relative and of the root-relative local links of d
DocRelativeUrls(d) ==
    {u \in LinkUrls(d) : IsLocalLink(u) /\ ~StartsWith(u, <<Slash>>)}

RootRelativeUrls(d) ==
    {u \in LinkUrls(d) : IsLocalLink(u) /\ StartsWith(u, <<Slash>>)}

\* how many links of d have the target url
Occurrences(d, url) ==
    LET links == FindLinks(tree[d])
    IN  Cardinality({i \in 1..Len(links) : links[i].url = url})

\* the broken-link errors recorded for the target url, owned by d
BrokenFor(d, url) ==
    {k \in 1..Len(tester.errors) :
        /\ tester.errors[k].file = d
        /\ tester.errors[k].message.kind = "broken_link"
        /\ tester.errors[k].message.url = url}

\* one broken-link error naming path for each link of d to url when path does
\* not exist, none when it exists
OutcomeFor(d, url, path) ==
    IF Exists(DOMAIN tree, DocsPath, path)
    THEN BrokenFor(d, url) = {}
    ELSE /\ Cardinality(BrokenFor(d, url)) = Occurrences(d, url)
         /\ \A k \in BrokenFor(d, url) : tester.errors[k].message.path = path

\* the file a document-relative target stands for: in the directory of d
DocRelativeFile(d, url) == Resolve(Parent(d) \o ParseParts(BeforeHash(url)))

\* the file a root-relative target stands for: below the root, whatever d
RootRelativeFile(url) ==
    Resolve(DocsPath \o ParseParts(LStripChar(BeforeHash(url), Slash)))

\* C3: a document-relative local link is resolved against the directory of its
\* document; if the resolved file does not exist exactly one broken-link error
\* is recorded for the link, owned by the document and naming the resolved
\* path, and if it exists no finding is recorded for it.
C3_DocRelativeLinks ==
    Returned =>
        \A d \in CheckedDocs : \A u \in DocRelativeUrls(d) :
            OutcomeFor(d, u, DocRelativeFile(d, u))

\* C3 restricted to documents whose directory has no '#' in its name
C3_OutsideHashDirectories ==
    Returned =>
        \A d \in CheckedDocs : \A u \in DocRelativeUrls(d) :
            ~Contains(PathStr(Parent(d)), <<Hash>>) =>
                OutcomeFor(d, u, DocRelativeFile(d, u))

\* C4: a root-relative local link is resolved against the root with the leading
\* separator stripped: whatever document holds it, the same target resolves to
\* the same path and has the same outcome.
C4_RootRelativeLinks ==
    Returned =>
        /\ \A d \in CheckedDocs : \A u \in RootRelativeUrls(d) :
               OutcomeFor(d, u, RootRelativeFile(u))
        /\ \A d1, d2 \in CheckedDocs : \A u \in RootRelativeUrls(d1) \cap RootRelativeUrls(d2) :
               (BrokenFor(d1, u) = {}) <=> (BrokenFor(d2, u) = {})

\* two documents at different depths hold the same root-relative target, and it
\* is reported broken for both
C4_Witness ==
    /\ Returned
    /\ \E d1, d2 \in CheckedDocs :
           /\ Len(d1) # Len(d2)
           /\ \E u \in RootRelativeUrls(d1) \cap RootRelativeUrls(d2) :
                  BrokenFor(d1, u) # {} /\ BrokenFor(d2, u) # {}

(***************************************************************************)
(* Claims about the structural check                                       *)
(***************************************************************************)
\* the findings of the list that are owned by d and of one of the kinds
FindingsOf(list, d, kinds) ==
    SelectSeq(list, LAMBDA e : e.file = d /\ e.message.kind \in kinds)

\* C5: the structural check records no unclosed-code-block error for a document
\* whose number of fence markers is even and exactly one when it is odd, however
\* many fences there are.
C5_FenceParity ==
    Returned =>
        \A d \in CheckedDocs :
            /\ Len(FindingsOf(tester.errors, d, {"unclosed_code_block"}))
                   = Count(tree[d], Fence) % 2
            /\ FindingsOf(tester.warnings, d, {"unclosed_code_block"}) = <<>>

\* a document with three fence markers or more, an odd number, has its one
\* error, and a document with an even number, not zero, has none
C5_Witness ==
    /\ Returned
    /\ \E d \in CheckedDocs :
           /\ Count(tree[d], Fence) >= 3
           /\ Count(tree[d], Fence) % 2 = 1
           /\ Len(FindingsOf(tester.errors, d, {"unclosed_code_block"})) = 1
    /\ \E d \in CheckedDocs :
           /\ Count(tree[d], Fence) >= 2
           /\ Count(tree[d], Fence) % 2 = 0
           /\ FindingsOf(tester.errors, d, {"unclosed_code_block"}) = <<>>

\* the number of lines that are a level-1 heading: "# " after stripping
H1Lines(content) ==
    LET lines == Split(content, NL)
    IN  Cardinality({i \in 1..Len(lines) : StartsWith(Strip(lines[i]), <<"#", " ">>)})

SyntaxCommands == {"py_compile", "node_check"}

\* the syntax checks run for the blocks of d, in order
SyntaxChecks(d) == SelectSeq(spawned, LAMBDA p : p.file = d /\ p.cmd \in SyntaxCommands)

\* those that exited with a non-zero status
FailedChecks(d) ==
    SelectSeq(SyntaxChecks(d),
              LAMBDA p : p.outcome.kind = "exit" /\ p.outcome.returncode # 0)

\* those that exited with status zero
PassedChecks(d) ==
    SelectSeq(SyntaxChecks(d),
              LAMBDA p : p.outcome.kind = "exit" /\ p.outcome.returncode = 0)

SyntaxErrorKind(cmd) ==
    IF cmd = "py_compile" THEN "python_syntax_error" ELSE "javascript_syntax_error"

SyntaxErrorKinds == {"python_syntax_error", "javascript_syntax_error"}

SyntaxWarningKinds ==
    {"python_timeout", "python_could_not_test", "javascript_timeout",
     "javascript_could_not_test"}

\* C7: with execution checking enabled, a python or javascript block without
\* placeholder whose syntax check exits with a non-zero status yields exactly
\* one error for the owning document, whose message holds the captured
\* standard error; a check that exits with status zero yields no finding.
C7_SyntaxErrors ==
    \A d \in DOMAIN tree :
        LET errs == FindingsOf(tester.errors, d, SyntaxErrorKinds)
            warns == FindingsOf(tester.warnings, d, SyntaxErrorKinds \cup SyntaxWarningKinds)
            failed == FailedChecks(d)
        IN  /\ Len(errs) = Len(failed)
            /\ \A i \in 1..Len(errs) :
                   /\ errs[i].message.kind = SyntaxErrorKind(failed[i].cmd)
                   /\ errs[i].message.stderr = failed[i].outcome.stderr
            /\ Len(warns) = Len(SyntaxChecks(d)) - Len(failed) - Len(PassedChecks(d))

\* a document had a python check that failed with a standard error output and
\* another check that passed
C7_Witness ==
    /\ Returned
    /\ args.execute_examples
    /\ \E d \in CheckedDocs :
           /\ \E i \in 1..Len(FailedChecks(d)) :
                  /\ FailedChecks(d)[i].cmd = "py_compile"
                  /\ FailedChecks(d)[i].outcome.stderr # <<>>
           /\ PassedChecks(d) # <<>>

\* C8: a temporary file created for a syntax check no longer exists when the
\* check returns, on every exit path; between two code-block checks no
\* temporary file of the tester is live.
C8_NoTempFileLeft == pc \notin {"python", "javascript"} => temp_files = {}

\* checks that timed out and checks that could not be run have returned, and
\* their temporary files are gone
C8_Witness ==
    /\ pc = "code"
    /\ temp_seq >= 2
    /\ temp_files = {}
    /\ \E i, j \in 1..Len(spawned) :
           /\ spawned[i].cmd \in SyntaxCommands
           /\ spawned[i].outcome.kind = "timeout"
           /\ spawned[j].cmd \in SyntaxCommands
           /\ spawned[j].outcome.kind = "exception"

NonExecutableFormats == {<<"t", "e", "x", "t">>, <<"m", "a", "r", "k", "d", "o", "w", "n">>, <<"j", "s", "o", "n">>, <<"y", "a", "m", "l">>, <<"y", "m", "l">>, <<"o", "u", "t", "p", "u", "t">>}

\* the lines of a bash body that the quote heuristic flags
UnmatchedQuoteLines(code) ==
    LET lines == Split(code, NL)
    IN  {i \in 1..Len(lines) :
            LET line == Strip(lines[i])
            IN  /\ line # <<>>
                /\ ~StartsWith(line, <<"#">>)
                /\ \/ Count(line, <<"\"">>) % 2 # 0
                   \/ Count(line, <<"'">>) % 2 # 0}

\* the flagged lines of the bash blocks of d that Skipped does not hold for
BashQuoteLines(d, Skipped(_)) ==
    LET blocks == FindCodeBlocks(tree[d])
    IN  UNION {{<<b, i>> : i \in UnmatchedQuoteLines(blocks[b].code)} :
                  b \in {b \in 1..Len(blocks) :
                            /\ Lower(blocks[b].lang) = <<"b", "a", "s", "h">>
                            /\ ~Skipped(blocks[b].code)}}

BashWarnings(d) == FindingsOf(tester.warnings, d, {"bash_unmatched_quotes"})

\* every finding of the code-example check that d owns
CodeFindings(d) ==
    FindingsOf(tester.errors, d, SyntaxErrorKinds)
        \o FindingsOf(tester.warnings, d,
                      SyntaxWarningKinds \cup {"bash_unmatched_quotes"})

NothingSkipped(code) == FALSE

\* C9: a block whose tag, compared without case, is a non-executable format is
\* never handed to an interpreter, and the code-example check records no
\* finding for it: the findings of a document are at most those of its checked
\* python and javascript blocks and of the lines of its bash blocks.
C9_NonExecutableNeverRun ==
    /\ \A i \in 1..Len(spawned) : Lower(spawned[i].lang) \notin NonExecutableFormats
    /\ Returned =>
           \A d \in CheckedDocs :
               Len(CodeFindings(d))
                   <= Len(SyntaxChecks(d)) + Cardinality(BashQuoteLines(d, NothingSkipped))

\* a run with execution checking met a block tagged in upper case with a
\* non-executable format, next to a block that was checked
C9_Witness ==
    /\ Returned
    /\ args.execute_examples
    /\ \E d \in CheckedDocs :
           /\ \E b \in 1..Len(FindCodeBlocks(tree[d])) :
                  LET lang == FindCodeBlocks(tree[d])[b].lang
                  IN  lang # Lower(lang) /\ Lower(lang) \in NonExecutableFormats
           /\ Len(SyntaxChecks(d)) = 1
           /\ Len(CodeFindings(d)) = 1

\* the placeholder markers: an API key token, "your-" in any case, the example
\* hostname
HasMarker(code) ==
    \/ Contains(code, <<"Y", "O", "U", "R", "_", "A", "P", "I", "_", "K", "E", "Y">>)
    \/ Contains(Lower(code), <<"y", "o", "u", "r", "-">>)
    \/ Contains(code, <<"e", "x", "a", "m", "p", "l", "e", ".", "c", "o", "m">>)

\* what makes the bash check return before the quote heuristic
BashSkipped(code) ==
    \/ Contains(code, <<"Y", "O", "U", "R", "_">>)
    \/ Contains(Lower(code), <<"y", "o", "u", "r", "-">>)
    \/ \E cmd \in {<<"r", "m", " ", "-", "r", "f">>, <<"d", "d", " ", "i", "f", "=">>, <<"m", "k", "f", "s">>, <<":", "(", ")", "{", ":", "|", ":", "&", "}", ";", ":">>} : Contains(code, cmd)

TimedOutChecks(d) == SelectSeq(SyntaxChecks(d), LAMBDA p : p.outcome.kind = "timeout")

TimeoutKind(cmd) == IF cmd = "py_compile" THEN "python_timeout" ELSE "javascript_timeout"

TimeoutKinds == {"python_timeout", "javascript_timeout"}

IsDestructive(code) ==
    \E cmd \in {<<"r", "m", " ", "-", "r", "f">>, <<"d", "d", " ", "i", "f", "=">>, <<"m", "k", "f", "s">>, <<":", "(", ")", "{", ":", "|", ":", "&", "}", ";", ":">>} : Contains(code, cmd)

\* C12: no subprocess is ever started for a bash block, which is checked by
\* quote counting per line only; a bash block that holds a destructive command
\* pattern is skipped as a whole and gets no finding.
C12_BashNeverRun ==
    /\ \A i \in 1..Len(spawned) : Lower(spawned[i].lang) # <<"b", "a", "s", "h">>
    /\ Returned =>
           \A d \in CheckedDocs :
               /\ Len(BashWarnings(d)) <= Cardinality(BashQuoteLines(d, IsDestructive))
               /\ Len(CodeFindings(d)) - Len(BashWarnings(d)) <= Len(SyntaxChecks(d))

\* a document holds a bash block with a raw disk write and an unmatched quote
\* and a bash block with mkfs on another line than its unmatched quote; the run
\* is over and the document has no finding of the code-example check
C12_Witness ==
    /\ Returned
    /\ args.execute_examples
    /\ spawned = <<>>
    /\ \E d \in CheckedDocs :
           LET blocks == FindCodeBlocks(tree[d])
           IN  /\ \E b \in 1..Len(blocks) :
                      /\ Lower(blocks[b].lang) = <<"b", "a", "s", "h">>
                      /\ Contains(blocks[b].code, <<"d", "d", " ", "i", "f", "=">>)
                      /\ UnmatchedQuoteLines(blocks[b].code) # {}
               /\ \E b \in 1..Len(blocks) :
                      /\ Lower(blocks[b].lang) = <<"b", "a", "s", "h">>
                      /\ Contains(blocks[b].code, <<"m", "k", "f", "s">>)
                      /\ UnmatchedQuoteLines(blocks[b].code) # {}
               /\ CodeFindings(d) = <<>>

(***************************************************************************)
(* Claims about the run as a whole                                         *)
(***************************************************************************)
\* the markdown files of the tree that the loop of run_all_tests does not skip
DocsToCheck == {f \in DOMAIN tree : /\ IsPrefix(DocsPath, f)
                                    /\ EndsWith(Name(f), <<".", "m", "d">>)
                                    /\ ~IsSkippedFile(f)}

\* C13: a failure inside the checks of one document never aborts the run: no
\* fault escapes uncaught, every later document is still checked, and the
\* results report is produced.
C13_RunNeverAborted ==
    /\ pc # "crashed"
    /\ pc \in {"exited", "after_run"} /\ FoundFiles =>
           /\ printed
           /\ tester.stats.files_checked = Cardinality(DocsToCheck)

\* C13 for the failures of the interpreters alone: when every document can be
\* decoded and no link target is over-long, no run is aborted and every run that
\* found documents prints its report
C13_SubprocessFailuresCaught ==
    (\A f \in DOMAIN tree :
         /\ Decodable(tree[f])
         /\ ~LinksRaise(DOMAIN tree, DocsPath, f, tree[f]))
    => C13_RunNeverAborted

\* the tester after the documents md_files[k..] have been checked one after
\* another, starting from t
RECURSIVE SequentialRun(_, _)
SequentialRun(t, k) ==
    IF k > Len(md_files) THEN t
    ELSE SequentialRun(CheckDocument(t, DOMAIN tree, DocsPath, md_files[k],
                                     tree[md_files[k]]),
                       k + 1)

\* every worker of the pool has made all its updates
PoolDone == pc = "pool" /\ \A w \in 1..Len(pool) : pool[w].at = "done"

\* the findings of the list that d owns, in order
OwnedBy(list, d) == SelectSeq(list, LAMBDA e : e.file = d)

\* C14: when the checks of different documents are run by a pool of workers,
\* under every interleaving the final counters equal those of the sequential
\* run, the findings of every document are those of the sequential run, no
\* counter update is lost and the error count is the number of error findings.
C14_PoolEqualsSequential ==
    PoolDone =>
        LET seq == SequentialRun(NewTester, 1)
        IN  /\ tester.stats = seq.stats
            /\ tester.stats.errors = Len(tester.errors)
            /\ tester.stats.warnings = Len(tester.warnings)
            /\ \A d \in DOMAIN tree :
                   /\ OwnedBy(tester.errors, d) = OwnedBy(seq.errors, d)
                   /\ OwnedBy(tester.warnings, d) = OwnedBy(seq.warnings, d)

\* C14 for the lists alone: no append is lost, whatever the interleaving
C14_FindingsKept ==
    PoolDone =>
        LET seq == SequentialRun(NewTester, 1)
        IN  \A d \in DOMAIN tree :
                /\ OwnedBy(tester.errors, d) = OwnedBy(seq.errors, d)
                /\ OwnedBy(tester.warnings, d) = OwnedBy(seq.warnings, d)


(***************************************************************************)
(* Claims about the sweep of the external links                            *)
(***************************************************************************)
\* check_external_links has returned after it could import requests
SweepDone == pc \in {"ext_done", "exit", "exited"} /\ imported = "imported"

\* the external links of the files, in the order of the sweep
RECURSIVE ExternalLinksOf(_)
ExternalLinksOf(files) ==
    IF files = <<>> THEN <<>>
    ELSE LET urls == IF IsSkippedExternalFile(files[1]) THEN <<>>
                     ELSE FindExternalLinks(tree[files[1]])
         IN  [i \in 1..Len(urls) |-> [file |-> files[1], url |-> urls[i]]]
                 \o ExternalLinksOf(Tail(files))

\* the request got a status of 400 or more, or it failed or timed out
RequestFailed(r) ==
    \/ r.outcome.kind # "response"
    \/ r.outcome.status_code >= 400

\* C15: when the sweep has returned, every external link of every swept
\* document was requested, whatever became of the links before it, and the
\* list returned holds one tuple (document, url, reason) for each request that
\* got a status >= 400 or failed, in order, and nothing else
C15_OneTuplePerFailedLink ==
    SweepDone =>
        LET links == ExternalLinksOf(Glob(DOMAIN tree, DocsPath))
            failed == SelectSeq(requested, RequestFailed)
        IN  /\ Len(requested) = Len(links)
            /\ \A i \in 1..Len(links) :
                   /\ requested[i].file = links[i].file
                   /\ requested[i].url = links[i].url
            /\ Len(broken) = Len(failed)
            /\ \A i \in 1..Len(failed) :
                   /\ broken[i].file = failed[i].file
                   /\ broken[i].url = failed[i].url
                   /\ broken[i].reason =
                          IF failed[i].outcome.kind = "response"
                          THEN [http |-> failed[i].outcome.status_code]
                          ELSE [exception |-> "RequestException"]

\* a sweep whose first request failed and whose second got a status below 400
C15_Witness ==
    /\ SweepDone
    /\ Len(requested) = 2
    /\ requested[1].outcome.kind = "request_exception"
    /\ requested[2].outcome = [kind |-> "response", status_code |-> 399]
    /\ Len(broken) = 1

\* C16: when --check-links is given and requests cannot be imported, the hint
\* is printed, no request is made, no broken link is returned, the program
\* does not end in an exception, and it exits with status 0 exactly when
\* run_all_tests found files and recorded no error
C16_UnavailableDegradesToWarning ==
    imported = "ImportError" =>
        /\ args.check_links
        /\ warned
        /\ requested = <<>>
        /\ broken = <<>>
        /\ pc \in {"ext_done", "exit", "exited"}
        /\ pc = "exited" =>
               exit_status = IF FoundFiles /\ tester.stats.errors = 0 THEN 0 ELSE 1

\* a run without requests over a document with an external link that exits
\* with status 0
C16_Witness ==
    /\ imported = "ImportError"
    /\ pc = "exited"
    /\ exit_status = 0
    /\ \E f \in DOMAIN tree : ~IsSkippedExternalFile(f) /\ Decodable(tree[f])
                                  /\ FindExternalLinks(tree[f]) # <<>>

(***************************************************************************)
(* Claims about the files that are checked                                 *)
(***************************************************************************)
\* the file lies in a directory named node_modules or .git
InSkippedDirectory(md_file) ==
    \E i \in 1..(Len(md_file) - 1) :
        md_file[i] \in {<<"n", "o", "d", "e", "_", "m", "o", "d", "u", "l", "e", "s">>, <<".", "g", "i", "t">>}

\* the documents glob finds below the root
MarkdownFiles == {md_files[i] : i \in 1..Len(md_files)}

\* C17: at the end of a run that found files, files_checked is the number of
\* markdown files that lie in no directory named node_modules or .git, and
\* the documents that have findings lie in no such directory
C17_CheckedOutsideSkippedDirectories ==
    (Returned /\ FoundFiles) =>
        /\ tester.stats.files_checked =
               Cardinality({f \in MarkdownFiles : ~InSkippedDirectory(f)})
        /\ \A f \in MarkdownFiles :
               InSkippedDirectory(f) =>
                   /\ OwnedBy(tester.errors, f) = <<>>
                   /\ OwnedBy(tester.warnings, f) = <<>>

\* what the filter does: files_checked is the number of markdown files whose
\* path, written as a string, holds neither "node_modules" nor ".git"
C17_CheckedWithoutSkippedSubstring ==
    (Returned /\ FoundFiles) =>
        tester.stats.files_checked =
            Cardinality({f \in MarkdownFiles : ~IsSkippedFile(f)})

(***************************************************************************)
(* Claims about the options and the statistics                             *)
(***************************************************************************)
\* the tester after the loop of run_all_tests over md_files[k..], code examples
\* left out, when the option fix has the given value
RECURSIVE RunWithFix(_, _, _)
RunWithFix(t, k, fix) ==
    IF k > Len(md_files) THEN t
    ELSE IF IsSkippedFile(md_files[k]) THEN RunWithFix(t, k + 1, fix)
    ELSE RunWithFix(
             CheckCommonIssues(
                 CheckLinks(
                     CheckMarkdownSyntax([t EXCEPT !.stats.files_checked = @ + 1],
                                         md_files[k], tree[md_files[k]]),
                     DOMAIN tree, DocsPath, md_files[k], tree[md_files[k]], fix),
                 md_files[k], tree[md_files[k]]),
             k + 1, fix)

\* the kinds of the findings of the code-example check
CodeKinds == SyntaxErrorKinds \cup SyntaxWarningKinds \cup {"bash_unmatched_quotes"}

\* the findings of the list that no code example gave
NotOfCode(list) == SelectSeq(list, LAMBDA e : e.message.kind \notin CodeKinds)

Counters == {"files_checked", "links_checked", "code_blocks_tested", "errors", "warnings"}

\* C19: no step of a run decrements or resets a counter of the statistics
C19_CountersNeverDecrease ==
    [][\A c \in Counters : tester'.stats[c] >= tester.stats[c]]_vars

\* the end of a run in which every counter has grown, the error counter twice
C19_Witness ==
    /\ Returned
    /\ \A c \in Counters : tester.stats[c] > 0
    /\ tester.stats.errors > 1

\* the number of links in the documents md_files[k..] that are checked
RECURSIVE LinksFrom(_)
LinksFrom(k) ==
    IF k > Len(md_files) THEN 0
    ELSE (IF IsSkippedFile(md_files[k]) THEN 0 ELSE Len(FindLinks(tree[md_files[k]])))
             + LinksFrom(k + 1)

\* an anchor, a mail address or an http/https address
IsAnchorMailOrExternal(url) ==
    \/ StartsWith(url, <<"#">>)
    \/ StartsWith(url, <<"m", "a", "i", "l", "t", "o", ":">>)
    \/ StartsWith(url, <<"h", "t", "t", "p", ":", "/", "/">>)
    \/ StartsWith(url, <<"h", "t", "t", "p", "s", ":", "/", "/">>)

\* d is the only document checked, it holds one link, a local one whose target
\* does not exist, and nothing else that any check reports
OnlyOneBrokenLink(d) ==
    LET links == FindLinks(tree[d])
    IN  /\ CheckedDocs = {d}
        /\ Len(links) = 1
        /\ ~IsAnchorMailOrExternal(links[1].url)
        /\ ~Exists(DOMAIN tree, DocsPath,
                   RemoveAnchor(ResolveLink(DocsPath, d, links[1].url)))
        /\ CheckCommonIssues(CheckMarkdownSyntax(NewTester, d, tree[d]), d, tree[d])
               = NewTester
        /\ ~args.execute_examples

\* C20: at the end of a run links_checked is the number of links in the
\* documents that were checked, whatever their kind; no broken-link error is
\* recorded for an anchor, a mail address or an http/https address; and a
\* document whose only flaw is one broken local link gives links_checked = 1
\* and an error count of 1
C20_EveryLinkCounted ==
    Returned =>
        /\ tester.stats.links_checked = LinksFrom(1)
        /\ \A k \in 1..Len(tester.errors) :
               tester.errors[k].message.kind = "broken_link" =>
                   ~IsAnchorMailOrExternal(tester.errors[k].message.url)
        /\ \A d \in CheckedDocs :
               OnlyOneBrokenLink(d) =>
                   /\ tester.stats.links_checked = 1
                   /\ tester.stats.errors = 1

\* a run over one document with a mail link and a broken local link: two links
\* checked, one error
C20_Witness ==
    /\ Returned
    /\ \E d \in CheckedDocs :
           LET links == FindLinks(tree[d])
           IN  /\ CheckedDocs = {d}
               /\ Len(links) = 2
               /\ \E i \in 1..2 : StartsWith(links[i].url, <<"m", "a", "i", "l", "t", "o", ":">>)
    /\ tester.stats.links_checked = 2
    /\ tester.stats.errors = 1

(***************************************************************************)
(* Claims about documents that end inside a code block                     *)
(***************************************************************************)
\* the number of fences of the document is odd: its last fence opens a block
\* that nothing closes
EndsInsideBlock(content) == Count(content, Fence) % 2 = 1

\* the block the last fence opens, closed at the end of the document
OpenBlock(content) ==
    LET i == CHOOSE j \in 1..Len(content) :
                 /\ StartsAt(content, j, Fence)
                 /\ \A k \in (j + 1)..Len(content) : ~StartsAt(content, k, Fence)
        w == WordRunEnd(content, i + 3)
    IN  [lang |-> SubSeq(content, i + 3, w - 1),
         code |-> SubSeq(content, w + 1, Len(content))]

\* the checked documents that end inside a python block
EndInsidePython ==
    {d \in CheckedDocs : /\ EndsInsideBlock(tree[d])
                         /\ OpenBlock(tree[d]).lang = <<"p", "y", "t", "h", "o", "n">>}

\* the syntax checks started for d on the code
ChecksOf(d, code) ==
    {k \in 1..Len(spawned) : spawned[k].file = d /\ spawned[k].code = code}

\* C21: for a document that ends inside a python block, with execution
\* enabled, the run goes on to its end, one unclosed-code-block error is
\* recorded, and the open block, closed at the end of the document, is handed
\* with its full body to the python check
C21_OpenBlockClosedAtEnd ==
    (Returned /\ args.execute_examples) =>
        \A d \in EndInsidePython :
            /\ Len(FindingsOf(tester.errors, d, {"unclosed_code_block"})) = 1
            /\ ChecksOf(d, OpenBlock(tree[d]).code) # {}

\* what the extraction does: the error is recorded, and the open block is
\* handed to no check
C21_OpenBlockDropped ==
    (Returned /\ args.execute_examples) =>
        \A d \in EndInsidePython :
            /\ Len(FindingsOf(tester.errors, d, {"unclosed_code_block"})) = 1
            /\ ChecksOf(d, OpenBlock(tree[d]).code) = {}

(***************************************************************************)
(* Claims about the walk over the headings                                 *)
(***************************************************************************)
\* the numbers of the lines of the document that are headings, in order
HeadingLines(content) ==
    LET lines == Split(content, NL)
    IN  SelectSeq([i \in 1..Len(lines) |-> i],
                  LAMBDA i : StartsWith(Strip(lines[i]), <<"#">>))

\* the level of a heading: the number of '#' it starts with
LevelOf(line) == Len(Strip(line)) - Len(LStripChar(Strip(line), "#"))

\* the number of '#' at the very start of the line, none when it is indented
LevelAtLineStart(line) == Len(line) - Len(LStripChar(line, "#"))

\* the warnings of a walk that compares every heading with its predecessor,
\* levels measured by Level
SkippedLevels(content, Level(_)) ==
    LET lines == Split(content, NL)
        at == HeadingLines(content)
        skips == SelectSeq([k \in 1..Len(at) |-> k],
                     LAMBDA k : /\ k > 1
                                /\ Level(lines[at[k - 1]]) > 0
                                /\ Level(lines[at[k]]) > Level(lines[at[k - 1]]) + 1)
    IN  [n \in 1..Len(skips) |->
            [kind |-> "skipped_heading", line |-> at[skips[n]],
             from |-> Level(lines[at[skips[n] - 1]]),
             to |-> Level(lines[at[skips[n]]])]]

\* the skipped-level warnings recorded for d, in order
SkippedWarnings(d) ==
    LET found == FindingsOf(tester.warnings, d, {"skipped_heading"})
    IN  [n \in 1..Len(found) |-> found[n].message]

\* C22: the skipped-level warnings of a document are, in order, one for every
\* heading whose level exceeds that of the heading just before it by more
\* than one, each with the line number and both levels
C22_SkippedLevelWarnings ==
    Returned =>
        \A d \in CheckedDocs : SkippedWarnings(d) = SkippedLevels(tree[d], LevelOf)

\* the same with the level of a heading counted at the very start of its line:
\* an indented heading has level 0, is never flagged and hides its predecessor
C22_SkippedLevelsAtLineStart ==
    Returned =>
        \A d \in CheckedDocs :
            SkippedWarnings(d) = SkippedLevels(tree[d], LevelAtLineStart)

(***************************************************************************)
(* Claims about links with an anchor and links without a target            *)
(***************************************************************************)
\* the local targets of d that carry an anchor fragment
AnchoredUrls(d) == {u \in LinkUrls(d) : IsLocalLink(u) /\ Contains(u, <<Hash>>)}

\* the file the part of the target before the fragment stands for
FileBeforeFragment(d, url) ==
    IF StartsWith(url, <<Slash>>) THEN RootRelativeFile(url) ELSE DocRelativeFile(d, url)

\* every link of d to url has its broken-link error, which names url whole,
\* when the file is missing, and there is none when the file exists
BrokenExactlyWhenMissing(d, url, file) ==
    IF Exists(DOMAIN tree, DocsPath, file)
    THEN BrokenFor(d, url) = {}
    ELSE Cardinality(BrokenFor(d, url)) = Occurrences(d, url)

\* C23: a local link 'path#fragment' is reported broken exactly when the file
\* at 'path', resolved with the fragment and nothing else removed, is missing,
\* and the error holds the target with its fragment
C23_OnlyFragmentRemoved ==
    Returned =>
        \A d \in CheckedDocs : \A u \in AnchoredUrls(d) :
            BrokenExactlyWhenMissing(d, u, FileBeforeFragment(d, u))

\* C23 for the documents whose directory has no '#' in its name
C23_OutsideHashDirectories ==
    Returned =>
        \A d \in CheckedDocs : \A u \in AnchoredUrls(d) :
            ~Contains(PathStr(Parent(d)), <<Hash>>) =>
                BrokenExactlyWhenMissing(d, u, FileBeforeFragment(d, u))

\* the target is empty or holds white space only
IsBlank(url) == \A i \in 1..Len(url) : IsSpace(url[i])

\* the empty-links errors recorded for d
EmptyLinkErrors(d) == FindingsOf(tester.errors, d, {"empty_links"})

\* the broken-link errors recorded for d whose target is blank
BlankBrokenLinks(d) ==
    SelectSeq(FindingsOf(tester.errors, d, {"broken_link"}),
              LAMBDA e : IsBlank(e.message.url))

\* a document with links whose target is blank has one empty-links error
\* that lists the labels of all of them, another document has none
OneEmptyLinksError(d) ==
    LET labels == FindEmptyLinks(tree[d])
    IN  IF labels = <<>> THEN EmptyLinkErrors(d) = <<>>
        ELSE /\ Len(EmptyLinkErrors(d)) = 1
             /\ EmptyLinkErrors(d)[1].message.labels = labels

\* C24: a document with links whose target is empty or white space gets one
\* empty-links error listing their labels, and none of those links is reported
\* as a broken link as well
C24_EmptyLinksReportedOnce ==
    Returned =>
        \A d \in CheckedDocs :
            /\ OneEmptyLinksError(d)
            /\ BlankBrokenLinks(d) = <<>>

\* the part of C24 about the empty-links error alone
C24_OneEmptyLinksError ==
    Returned => \A d \in CheckedDocs : OneEmptyLinksError(d)

(***************************************************************************)
(* Claims about a root without documents                                   *)
(***************************************************************************)
\* no file below the root has the extension of a markdown document
NoMarkdownBelowRoot ==
    \A f \in DOMAIN tree : IsPrefix(DocsPath, f) => ~EndsWith(Name(f), <<".", "m", "d">>)

\* nothing of run_all_tests beyond its listing has happened
NothingChecked ==
    /\ tester = NewTester
    /\ spawned = <<>>
    /\ temp_files = {}
    /\ ~printed

\* C25: on a root that exists and holds no markdown document run_all_tests
\* returns False with no check run, no report printed and every counter zero,
\* and the process then exits with a non-zero status; on a missing root main
\* exits with status 1 and nothing else has happened
C25_NoDocumentsNoRoot ==
    /\ (root_exists /\ NoMarkdownBelowRoot /\ pc \in {"after_run", "ext_loop", "ext_done", "exit", "exited"}) =>
           /\ ~success
           /\ NothingChecked
           /\ requested = <<>>
           /\ pc = "exited" => exit_status # 0
    /\ (~root_exists /\ pc # "main") =>
           /\ pc = "exited"
           /\ exit_status = 1
           /\ NothingChecked
           /\ md_files = <<>>
           /\ imported = ""

\* an exit with a non-zero status, without --check-links, on a root that holds
\* a file but no markdown document
C25_Witness ==
    /\ pc = "exited"
    /\ root_exists
    /\ NoMarkdownBelowRoot
    /\ DOMAIN tree # {}
    /\ ~args.check_links
    /\ exit_status # 0
    /\ tester.stats.errors = 0

(***************************************************************************)
(* Claims about the counters and the findings of the tester                *)
(***************************************************************************)
\* the number of extracted blocks of the content whose tag, in lower case, is
\* no non-executable format
ExecutableBlocks(content) ==
    LET blocks == FindCodeBlocks(content)
    IN  Cardinality({b \in 1..Len(blocks) :
                        Lower(blocks[b].lang) \notin NonExecutableFormats})

\* their number in the documents md_files[k..] that are checked
RECURSIVE ExecutableBlocksFrom(_)
ExecutableBlocksFrom(k) ==
    IF k > Len(md_files) THEN 0
    ELSE (IF IsSkippedFile(md_files[k]) THEN 0 ELSE ExecutableBlocks(tree[md_files[k]]))
             + ExecutableBlocksFrom(k + 1)

\* C26: without execution checking code_blocks_tested is zero at every moment;
\* with it, at the end of the run the counter is the number of extracted blocks
\* whose lower-cased tag is no non-executable format, whatever became of them
C26_CodeBlocksTested ==
    /\ ~args.execute_examples => tester.stats.code_blocks_tested = 0
    /\ (Returned /\ args.execute_examples) =>
           tester.stats.code_blocks_tested = ExecutableBlocksFrom(1)

\* a run with execution checking over a document with a block of a
\* non-executable format and a python block with a placeholder: one block
\* counted, no interpreter started
C26_Witness ==
    /\ Returned
    /\ args.execute_examples
    /\ tester.stats.code_blocks_tested = 1
    /\ spawned = <<>>
    /\ \E d \in CheckedDocs :
           LET blocks == FindCodeBlocks(tree[d])
           IN  /\ Len(blocks) = 2
               /\ \E b \in 1..2 : Lower(blocks[b].lang) \in NonExecutableFormats
               /\ \E b \in 1..2 : blocks[b].lang = <<"p", "y", "t", "h", "o", "n">> /\ HasMarker(blocks[b].code)

\* the list has grown by findings that all belong to the document d
GrownFor(old, new, d) ==
    /\ Len(new) >= Len(old)
    /\ SubSeq(new, 1, Len(old)) = old
    /\ \A k \in (Len(old) + 1)..Len(new) : new[k].file = d

\* C27: in every state of the tester the errors counter is the length of the
\* errors list and the warnings counter the length of the warnings list, and
\* every step that records findings appends them with the path of the document
\* that is being checked
C27_CountersMatchLists ==
    /\ [](/\ tester.stats.errors = Len(tester.errors)
          /\ tester.stats.warnings = Len(tester.warnings))
    /\ [][\/ /\ tester'.errors = tester.errors
             /\ tester'.warnings = tester.warnings
          \/ /\ pc \in {"syntax", "links", "common", "code", "python", "javascript"}
             /\ GrownFor(tester.errors, tester'.errors, md_files[idx])
             /\ GrownFor(tester.warnings, tester'.warnings, md_files[idx])]_vars

\* the end of a run that recorded errors for two documents, and warnings
C27_Witness ==
    /\ Returned
    /\ \E i, j \in 1..Len(tester.errors) : tester.errors[i].file # tester.errors[j].file
    /\ tester.warnings # <<>>

(***************************************************************************)
(* Claims about the two fence computations                                 *)
(***************************************************************************)
\* the numbers of the lines that the scan of _check_common_issues takes for a
\* fence: those that start with one, white space aside
FenceLines(content) ==
    LET lines == Split(content, NL)
    IN  {i \in 1..Len(lines) : StartsWith(Strip(lines[i]), Fence)}

\* the scan is inside a code block when it has read the last line
ScanEndsInsideBlock(content) == Cardinality(FenceLines(content)) % 2 = 1

\* every fence of the document starts a line, white space aside, and is the
\* only one of its line
FencesStartLines(content) == Count(content, Fence) = Cardinality(FenceLines(content))

\* C28: the line scan of the long-line check ends a document inside a code
\* block exactly when the fence-parity check records an unclosed-code-block
\* error for that document
C28_FenceComputationsAgree ==
    Returned =>
        \A d \in CheckedDocs :
            ScanEndsInsideBlock(tree[d])
                <=> FindingsOf(tester.errors, d, {"unclosed_code_block"}) # <<>>

\* C28 for the documents in which every fence stands alone at the start of a
\* line
C28_AgreeWhenFencesStartLines ==
    Returned =>
        \A d \in CheckedDocs :
            FencesStartLines(tree[d]) =>
                (ScanEndsInsideBlock(tree[d])
                     <=> FindingsOf(tester.errors, d, {"unclosed_code_block"}) # <<>>)

(***************************************************************************)
(* Claims about the preservation of code blocks                            *)
(***************************************************************************)
\* C29: restoring the preserved list into the placeholder text, left as it
\* was, gives back the content
C29_RoundTrip ==
    gen.at = "restored" => gen.result = gen.content

\* only fenced blocks, or only inline code, were preserved
PreservedOfOneKind ==
    \/ \A i \in 1..Len(gen.preserved) : StartsWith(gen.preserved[i], Fence)
    \/ \A i \in 1..Len(gen.preserved) : ~StartsWith(gen.preserved[i], Fence)

\* C29 for the contents of which only fenced blocks, or only inline code, were
\* preserved
C29_RoundTripOfOneKind ==
    (gen.at = "restored" /\ PreservedOfOneKind) => gen.result = gen.content


(***************************************************************************)
(* Claims about the versions metadata                                      *)
(***************************************************************************)
\* the version strings of versions.json, in its order
VersionsOf(m) == [i \in 1..Len(m.versions) |-> m.versions[i].version]

\* at most one entry per version string
OnePerVersion ==
    \A i \in 1..Len(mgr.versions) : \A j \in 1..Len(mgr.versions) :
        mgr.versions[i].version = mgr.versions[j].version => i = j

\* "latest" is the version of the first entry
LatestIsFirst ==
    mgr.versions # <<>> => mgr.latest = mgr.versions[1].version

\* numeric comparison of the components puts k1 before k2, or leaves them
\* equal: the first components that differ are numbers, the greater in k1
NumericallyNotOlder(k1, k2) ==
    LET i == FirstDifference(k1, k2)
    IN  IF i = 0 THEN Len(k1) >= Len(k2)
        ELSE k1[i].num /\ k2[i].num /\ k1[i].n > k2[i].n

NewestFirstNumerically ==
    \A i \in 1..(Len(mgr.versions) - 1) :
        NumericallyNotOlder(VersionKey(mgr.versions[i]), VersionKey(mgr.versions[i + 1]))

\* the order of version_key: numbers as numbers, other components as strings
NewestFirstByKey ==
    \A i \in 1..(Len(mgr.versions) - 1) :
        /\ ~KeyRaises(VersionKey(mgr.versions[i]), VersionKey(mgr.versions[i + 1]))
        /\ ~KeyLess(VersionKey(mgr.versions[i]), VersionKey(mgr.versions[i + 1]))

\* a step that deprecates a version changes the status of that version, with
\* its deprecated_at, and nothing else of the metadata
DeprecateChangesStatusOnly ==
    mgr'.said.msg = "deprecated" =>
        /\ VersionsOf(mgr') = VersionsOf(mgr)
        /\ mgr'.latest = mgr.latest
        /\ \A i \in 1..Len(mgr.versions) :
               /\ mgr'.versions[i] = [mgr.versions[i] EXCEPT
                                         !.status = mgr'.versions[i].status,
                                         !.deprecated_at = mgr'.versions[i].deprecated_at]
               /\ mgr.versions[i].version # mgr'.said.version
                      => mgr'.versions[i] = mgr.versions[i]
               /\ mgr.versions[i].version = mgr'.said.version
                      => mgr'.versions[i].status = "deprecated"

\* a step that deprecates an unknown version leaves the metadata as it was
DeprecateUnknownChangesNothing ==
    mgr'.said.msg \in {"not_found", "no_versions"} =>
        /\ mgr'.file = mgr.file
        /\ mgr'.versions = mgr.versions
        /\ mgr'.latest = mgr.latest

\* C30: after any create_version and deprecate_version the metadata holds at
\* most one entry per version, ordered newest first by numeric comparison of
\* the components, with "latest" the first; deprecating changes only the
\* status of that version, and nothing when the version is unknown
C30_VersionsMetadata ==
    /\ [](OnePerVersion /\ NewestFirstNumerically /\ LatestIsFirst)
    /\ [][DeprecateChangesStatusOnly /\ DeprecateUnknownChangesNothing]_vars

\* C30 with the order of version_key in place of the numeric order
C30_VersionsByKey ==
    /\ [](OnePerVersion /\ NewestFirstByKey /\ LatestIsFirst)
    /\ [][DeprecateChangesStatusOnly /\ DeprecateUnknownChangesNothing]_vars

=============================================================================
